---- MODULE Spec2Model ----
(***************************************************************************)
(* View-state synchronisation layer of the portfolio page.                 *)
(*                                                                         *)
(* The repository ships two page scripts, js/script.js (the APP object and *)
(* its functions) and js/main.js (the Portfolio class).  A page loads one  *)
(* of them; `page` records which.  Both read and write the same            *)
(* localStorage keys.                                                      *)
(*                                                                         *)
(* Strings that are only compared are TLA+ strings.  Text that the code    *)
(* trims or tests for emptiness (field text, input values) is a sequence   *)
(* of tokens in which " " is a white-space character and every other token *)
(* is a run of non-white-space characters.                                 *)
(***************************************************************************)
EXTENDS Integers, Sequences, FiniteSets, TLC

VARIABLES
    page,            \* "script" (js/script.js) or "main" (js/main.js)
    lsTheme,         \* localStorage 'theme' (null when absent)
    lsPersonalData,  \* localStorage 'personalData'
    appTheme,        \* APP.state.theme (script.js); null on a main.js page
    bodyTheme,       \* document.body data-theme (written by script.js)
    htmlTheme,       \* document.documentElement data-theme (written by main.js)
    prefersDark,     \* matchMedia('(prefers-color-scheme: dark)').matches
    hour,            \* the local hour, new Date().getHours()
    sections,        \* section[id] elements in document order
    markupActive,    \* nav links marked 'active' in the markup
    scrollY,         \* window.scrollY
    scrollPending,   \* the debounced scroll handler's timer is pending
    currentSection,  \* section computed by the last scroll sample
    activeLinks,     \* nav links carrying the 'active' class
    navbarScrolled,  \* navbar carries 'scrolled'
    backToTopVisible,\* back-to-top button carries 'visible'
    isMenuOpen,      \* APP.state.isMenuOpen
    hamburgerActive, \* hamburger carries 'active'
    navMenuActive,   \* nav menu carries 'active'
    isEditing,       \* APP.state.isEditing / Portfolio.isEditMode
    markupText,      \* text of each editable field as authored in the markup
    fieldText,       \* textContent of each editable field
    fieldInput,      \* the .edit-input of each field, if any
    focused,         \* the field whose .edit-input has the focus, or null
    editBtnShown,    \* #editPersonalInfo is displayed (script.js)
    saveBtnShown,    \* #savePersonalInfo is displayed (script.js)
    updateBtnSave,   \* .update-btn carries 'save' (main.js)
    lastOp,          \* history: the handler that ran last
    lastError,       \* history: the last handler ended by throwing
    themeLog,        \* history: theme before/after the current run of toggles
    lastToggled,     \* history: value produced by the most recent toggle
    savedInputs,     \* history: input values read by the last completed save
    present,         \* the expected elements the markup of the page contains
    readyState,      \* document.readyState when js/script.js is evaluated
    touchDevice,     \* 'ontouchstart' in window
    innerWidth,      \* window.innerWidth
    profileImgSrc,   \* src of #profileImg
    lsProfileImage,  \* localStorage 'profileImage' (NoImage when absent)
    reads,           \* files a FileReader is still reading
    lastFile,        \* history: the file of the last selection or completed read
    resizePending,   \* the debounced resize handler's timer is pending
    orientationTimers,\* orientationchange timeouts not yet fired
    fetchCalls,      \* fetchGitHubStats invocations, by the request each awaits
    userRequests,    \* user-profile requests sent since the page load
    repoRequests,    \* repository-list requests sent since the page load
    statsShown,      \* what the GitHub counters show
    enhancedPending, \* the timeout of enhancedInit is pending
    observed,        \* elements each IntersectionObserver still observes
    inView,          \* watched elements that intersect the viewport
    animCount,       \* enter-viewport animations triggered, per element
    lastNotification,\* the notification shown last, if any
    lastWarn,        \* history: the last page load called console.warn
    menuWasOpen,     \* history: APP.state.isMenuOpen before the last handler
    enteredText,     \* history: text of the fields when edit mode was entered
    dbWait,          \* wait of the debounced function, 0 before debounce is called
    dbTimer,         \* ticks until its timeout fires, -1 when none is pending
    dbArgs,          \* argument of its latest call
    dbEvents,        \* history: calls of the current burst
    dbCalls,         \* history: executions of func since the burst began
    dbSeen,          \* history: argument func was executed with last
    notes,           \* the notification elements created since the page load
    typeStart,       \* timeouts pending that start a typewriter
    typeTimers,      \* typewriters whose typewriterTimeout is pending
    torn,            \* history: beforeunload was dispatched, before or after
                     \* the typewriter was triggered
    lateStep,        \* history: typewriterEffect ran after such a beforeunload
    skillBars,       \* per .level-bar: the stored target and the current fill
    skillTimers,     \* timeouts pending that call animateSkillBars
    barTimers,       \* per .level-bar: the fill timeouts pending
    barDelay,        \* history, per .level-bar: the delay of the timeout that
                     \* filled it last, -1 before
    lastAccepted     \* history: the valid file selected last, as long as its
                     \* read has not failed

storageVars == <<lsTheme, lsPersonalData>>
themeVars   == <<appTheme, bodyTheme, htmlTheme, prefersDark, hour>>
scrollVars  == <<sections, markupActive, scrollY, scrollPending, currentSection, activeLinks,
                 navbarScrolled, backToTopVisible>>
menuVars    == <<isMenuOpen, hamburgerActive, navMenuActive>>
editVars    == <<isEditing, markupText, fieldText, fieldInput, focused,
                 editBtnShown, saveBtnShown, updateBtnSave>>
histVars    == <<lastOp, lastError, themeLog, lastToggled, savedInputs>>
envVars     == <<present, readyState, touchDevice, innerWidth>>
imageVars   == <<profileImgSrc, lsProfileImage, reads, lastFile, lastAccepted>>
timerVars   == <<resizePending, orientationTimers>>
fetchVars   == <<fetchCalls, userRequests, repoRequests, statsShown>>
revealVars  == <<enhancedPending, observed, inView, animCount>>
debounceVars == <<dbWait, dbTimer, dbArgs, dbEvents, dbCalls, dbSeen>>
\* the state of the helpers and animations modelled on their own
typeVars    == <<typeStart, typeTimers, torn, lateStep>>
barVars     == <<skillBars, skillTimers, barTimers, barDelay>>
laterVars   == <<debounceVars, notes, typeVars, barVars>>
\* what the theme, scroll and edit handlers leave alone
restVars    == <<envVars, imageVars, timerVars, fetchVars, revealVars, laterVars, lastWarn,
                 menuWasOpen, enteredText>>
\* restVars without enteredText, and without menuWasOpen
restOfEdit  == <<envVars, imageVars, timerVars, fetchVars, revealVars, laterVars, lastWarn,
                 menuWasOpen>>
restOfMenu  == <<envVars, imageVars, timerVars, fetchVars, revealVars, laterVars, lastWarn,
                 enteredText>>
vars == <<page, storageVars, themeVars, scrollVars, menuVars, editVars, histVars,
          restVars, lastNotification>>

-----------------------------------------------------------------------------
(* Bounds of the model *)

\* scroll offsets sampled: 0, 100, ..., 100 * MaxScrollSteps
MaxScrollSteps == 12
\* longest text typed into an input, in tokens
MaxLen == 2
\* FileReader reads in flight at once
MaxReads == 2
\* orientationchange timeouts pending at once
MaxTimers == 2
\* enter-viewport animations counted per element
MaxAnimations == 4
\* longest wait of a debounced function, in ticks, and most calls in a burst
MaxWait == 2
MaxBurst == 3
\* notifications created per page load, and removal timeouts a user's
\* clicks on one close button keep pending at once
MaxNotes == 1
MaxCloseClicks == 3

-----------------------------------------------------------------------------
(* JavaScript values *)

null == "null"

\* JavaScript truthiness of a string-or-null value
Truthy(s) == s # null /\ s # ""

Pages == {"script", "main"}

\* values found under 'theme': the two the code writes, and foreign strings
StoredThemes == {null, "", "light", "dark", "blue"}

\* local hours around the two limits of the time heuristic
Hours == {6, 7, 19, 20}

Max(a, b) == IF a >= b THEN a ELSE b

-----------------------------------------------------------------------------
(* Theme *)

\* APP.state.theme initialiser
AppThemeInit(saved) == IF Truthy(saved) THEN saved ELSE "light"

\* Portfolio.initTheme: the attribute it sets
initTheme(saved, prefers) ==
    IF Truthy(saved) THEN saved
    ELSE IF prefers THEN "dark" ELSE "light"

\* autoTheme of Portfolio.initEnhancedThemeSystem, applied to the attribute
autoThemeNoGuard(attr, h) == IF h < 7 \/ h > 19 THEN "dark" ELSE attr

autoTheme(attr, h) ==
    LET isDarkTime == h < 7 \/ h > 19
    IN  IF isDarkTime /\ attr = null THEN "dark" ELSE attr

\* toggleTheme of script.js: the new APP.state.theme
ScriptNextTheme(t) == IF t = "light" THEN "dark" ELSE "light"

\* Portfolio.toggleTheme: the new attribute value
MainNextTheme(t) == IF t = "dark" THEN "light" ELSE "dark"

\* the theme in effect on the page
ActiveTheme == IF page = "script" THEN appTheme ELSE htmlTheme

\* the document-level attribute the page's script maintains
ThemeAttr == IF page = "script" THEN bodyTheme ELSE htmlTheme

LogToggle(before, after) ==
    IF themeLog = <<>> THEN <<before, after>>
    ELSE IF Len(themeLog) = 2 THEN Append(themeLog, after)
    ELSE <<themeLog[2], themeLog[3], after>>

-----------------------------------------------------------------------------
(* Sections and navigation links *)

\* offsets the user scrolls to
ScrollPositions == {100 * k : k \in 0..MaxScrollSteps}

Sec(id, top, height) == [id |-> id, offsetTop |-> top, offsetHeight |-> height]

\* page layouts: contiguous, overlapping, with gaps, and without sections
SectionLayouts ==
    { << Sec("home", 0, 500), Sec("about", 500, 700) >>,
      << Sec("home", 0, 600), Sec("about", 500, 700), Sec("contact", 1200, 100) >>,
      << Sec("home", 200, 300), Sec("about", 700, 300) >>,
      << >> }

\* the .nav-link elements, by the section id they point to
NavLinks == {"home", "about", "contact"}

SectionIds(secs) == {secs[i].id : i \in 1..Len(secs)}

\* offset added to scrollY before comparing with section bounds
SectionProbeOffset == 100

ContainsInclusiveBottom(sec, pos) ==
    pos >= sec.offsetTop /\ pos <= sec.offsetTop + sec.offsetHeight

\* scrollPosition >= sectionTop && scrollPosition < sectionBottom
Contains(sec, pos) ==
    pos >= sec.offsetTop /\ pos < sec.offsetTop + sec.offsetHeight

Matching(secs, y) ==
    {i \in 1..Len(secs) : Contains(secs[i], y + SectionProbeOffset)}

\* getCurrentSection of script.js: first match, else the first section, else 'home'
getCurrentSection(secs, y) ==
    LET m == Matching(secs, y)
    IN  IF m # {} THEN secs[CHOOSE i \in m : \A j \in m : i <= j].id
        ELSE IF Len(secs) > 0 THEN secs[1].id
        ELSE "home"

\* the scan of Portfolio.updateActiveNavigation: last match, else ''
MainCurrent(secs, y) ==
    LET m == {i \in 1..Len(secs) :
                 y >= secs[i].offsetTop - SectionProbeOffset
                 /\ y < secs[i].offsetTop - SectionProbeOffset + secs[i].offsetHeight}
    IN  IF m # {} THEN secs[CHOOSE i \in m : \A j \in m : i >= j].id
        ELSE ""

\* links whose data-section / href names the section
LinksFor(current) == {l \in NavLinks : l = current}

NavbarThreshold == 50
scrollThreshold == 100
\* the literal of Portfolio.initBackToTop
MainBackToTopThreshold == 300
\* Utils.scrollTo's default offset and the literal of Portfolio.initNavigation
FixedOffset == 70

TargetTop(secs, id) ==
    LET i == CHOOSE k \in 1..Len(secs) : secs[k].id = id IN secs[i].offsetTop

-----------------------------------------------------------------------------
(* Text *)

Tokens == {"Engineer", " "}

RECURSIVE SeqsUpTo(_)
SeqsUpTo(n) ==
    IF n = 0 THEN {<<>>}
    ELSE LET shorter == SeqsUpTo(n - 1)
         IN  shorter \cup {Append(s, t) : s \in {x \in shorter : Len(x) = n - 1},
                                          t \in Tokens}

\* what a user may type into an input
TypedTexts == SeqsUpTo(MaxLen)

IsSpace(t) == t = " "

RECURSIVE TrimLeft(_)
TrimLeft(s) == IF s # <<>> /\ IsSpace(Head(s)) THEN TrimLeft(Tail(s)) ELSE s

RECURSIVE TrimRight(_)
TrimRight(s) ==
    IF s # <<>> /\ IsSpace(s[Len(s)]) THEN TrimRight(SubSeq(s, 1, Len(s) - 1)) ELSE s

\* String.prototype.trim
Trim(s) == TrimRight(TrimLeft(s))

-----------------------------------------------------------------------------
(* Editable fields *)

\* the .editable-field elements in document order, by their data-field name
FieldOrder == <<"occupation", "email">>

Fields == {FieldOrder[i] : i \in 1..Len(FieldOrder)}

\* text authored in the markup for a field
MarkupTexts == {<<"Dev">>, <<"Sinh", " ", "vien", " ", "IT">>}

\* getDefaultValue: defaults[fieldName] || ''  (diacritics dropped)
getDefaultValue(fieldName) ==
    CASE fieldName = "fullName"    -> <<"Nguyen", " ", "Van", " ", "A">>
      [] fieldName = "birthDate"   -> <<"01/01/2000">>
      [] fieldName = "address"     -> <<"Ha", " ", "Noi,", " ", "Viet", " ", "Nam">>
      [] fieldName = "occupation"  -> <<"Sinh", " ", "vien", " ", "IT">>
      [] fieldName = "description" -> <<"Toi", " ", "la", " ", "mot", " ", "sinh",
                                        " ", "vien", " ", "dam", " ", "me", " ",
                                        "cong", " ", "nghe...">>
      [] OTHER                     -> <<>>

NoInput == [present |-> FALSE, value |-> <<>>, orig |-> <<>>]

NewInput(v) == [present |-> TRUE, value |-> v, orig |-> v]

\* localStorage.getItem of a key never set
Absent == [tag |-> "absent", pairs |-> <<>>]

\* An object literal is the sequence of its <<key, value>> pairs in insertion
\* order; JSON.stringify keeps that order, JSON.parse gives the pairs back.
JSONstringify(obj) == [tag |-> "json", pairs |-> obj]

JSONparse(str) == str.pairs

Has(obj, key) == \E i \in 1..Len(obj) : obj[i][1] = key

\* obj[key], '' standing for undefined (both are falsy)
Get(obj, key) ==
    IF Has(obj, key)
    THEN obj[CHOOSE i \in 1..Len(obj) :
                 obj[i][1] = key /\ \A j \in 1..Len(obj) : obj[j][1] = key => j <= i][2]
    ELSE <<>>

\* value committed by saveChanges of script.js for an input value
SavedValue(v) == Trim(v)

\* the data object saveChanges builds from the first n fields
RECURSIVE SaveData(_, _)
SaveData(inputs, n) ==
    IF n = 0 THEN <<>>
    ELSE LET f == FieldOrder[n]
             value == SavedValue(inputs[f].value)
         IN  IF value # <<>> THEN Append(SaveData(inputs, n - 1), <<f, value>>)
             ELSE SaveData(inputs, n - 1)

\* text of a field after saveChanges of script.js
SaveText(f, input) ==
    LET value == SavedValue(input.value)
    IN  IF value # <<>> THEN value ELSE getDefaultValue(f)

\* loadSavedData of script.js: text of the fields after load
LoadIgnoringSaved(markup, stored) == markup

loadSavedData(markup, stored) ==
    IF stored.tag = "json"
    THEN LET data == JSONparse(stored)
         IN  [f \in Fields |-> IF Get(data, f) # <<>> THEN Get(data, f) ELSE markup[f]]
    ELSE markup

\* text of the fields once the page's script has initialised
LoadedFieldText(pg, markup, stored) ==
    IF pg = "script" THEN loadSavedData(markup, stored) ELSE markup

\* the input values of all fields, as read by a save
InputValues == [f \in Fields |-> IF fieldInput[f].present THEN fieldInput[f].value
                                 ELSE <<"(no input)">>]

NoSave == [f \in Fields |-> <<"(no save)">>]

-----------------------------------------------------------------------------
(* Page elements and the initialization of js/script.js *)

\* the elements cacheElements looks up by id and the handlers dereference
Elements == {"navbar", "hamburger", "navMenu", "themeToggle", "backToTop",
             "profileImg", "imageUpload", "editButton", "saveButton"}

\* page variants: the complete markup, or the markup without one element
Markups == {Elements} \cup {Elements \ {e} : e \in Elements}

\* a classic script runs while the document is 'loading', a deferred one
\* while it is 'interactive'
ReadyStates == {"loading", "interactive"}

\* the calls initializeApp makes, in order
InitSteps ==
    << "cacheElements", "updateMobileSettings", "initializePerformanceMonitoring",
       "initializeLoadingScreen", "initializeNavigation", "initializeTheme",
       "initializeScrollEffects", "initializeProfileImage",
       "initializeEditableFields", "initializeIntersectionObserver",
       "initializeSkillBars", "initializeBackToTop", "addEnhancedAnimations",
       "initializeGitHubIntegration", "addEventListeners", "initAboutAnimations",
       "initCareerAnimations" >>

StepIndex(step) == CHOOSE i \in 1..Len(InitSteps) : InitSteps[i] = step

\* the step ends by throwing: a method called on an element that is null, or
\* (when initializeApp is called before the script has been evaluated to its
\* end) a const read before its declaration
Throws(step) ==
    CASE step = "initializeNavigation" -> "hamburger" \notin present
      [] step = "initializeTheme"      -> "themeToggle" \notin present
      [] step = "addEventListeners"    -> touchDevice /\ "navMenu" \notin present
      [] step = "initAboutAnimations"  -> readyState # "loading"
      [] OTHER                         -> FALSE

\* index of the step at which initializeApp throws, 0 when it returns
AbortIndex ==
    LET t == {i \in 1..Len(InitSteps) : Throws(InitSteps[i])}
    IN  IF t = {} THEN 0 ELSE CHOOSE i \in t : \A j \in t : i <= j

\* initializeApp starts the step / runs the step to its end
Reached(step) == AbortIndex = 0 \/ StepIndex(step) <= AbortIndex

Completed(step) == AbortIndex = 0 \/ StepIndex(step) < AbortIndex

\* calls of initializeApp per page load: the two DOMContentLoaded listeners of
\* a document still loading; otherwise the first direct call, whose exception
\* ends the evaluation of the script before the second
InitRuns == IF readyState = "loading" THEN 2 ELSE 1

\* what initializeApp has set up on a js/script.js page; js/main.js looks its
\* elements up itself and is modelled on the complete markup
NavListeners == page = "main" \/ Completed("initializeNavigation")

BodyThemeSet == Reached("initializeTheme")

ThemeListener == page = "main" \/ Completed("initializeTheme")

UploadListener ==
    /\ page = "script"
    /\ Completed("initializeProfileImage")
    /\ {"profileImg", "imageUpload"} \subseteq present

EditListeners ==
    /\ Completed("initializeEditableFields")
    /\ {"editButton", "saveButton"} \subseteq present

\* keydown, resize and click listeners of addEventListeners
KeyListeners == Reached("addEventListeners")

TouchListeners == page = "script" /\ touchDevice /\ Completed("addEventListeners")

OrientationListener == page = "script" /\ Completed("addEventListeners")

\* fetchGitHubStats calls made by one page load
FetchCalls ==
    IF page = "script" /\ Completed("initializeGitHubIntegration") THEN InitRuns ELSE 0

-----------------------------------------------------------------------------
(* Stored 'personalData' strings *)

\* a stored string that is not the JSON text of an object
Stored(kind) == [tag |-> kind, pairs |-> <<>>]

\* '' (falsy), text JSON.parse rejects, and the JSON texts null, 42 and "x"
ForeignData == {Stored("empty"), Stored("malformed"), Stored("null"),
                Stored("number"), Stored("string")}

StoredPersonalData ==
    {Absent} \cup ForeignData
    \cup {JSONstringify(<< <<"occupation", <<"Engineer">> >> >>)}

loadWarnsOnParseOnly(stored) == stored.tag = "malformed"

\* loadSavedData reaches console.warn: JSON.parse throws a SyntaxError, or
\* data[fieldName] throws a TypeError on null for the first field
loadWarns(stored) ==
    \/ stored.tag = "malformed"
    \/ stored.tag = "null" /\ Len(FieldOrder) > 0

-----------------------------------------------------------------------------
(* Profile image *)

\* the size limit of handleImageUpload, in bytes
MaxImageSize == 5 * 1024 * 1024

File(name, type, size) == [name |-> name, type |-> type, size |-> size]

\* files offered to the file input: images at, below and above the limit, and
\* a text file
Files ==
    {File(n, "image/png", sz) : n \in {"a", "b"},
                                sz \in {2048, MaxImageSize, MaxImageSize + 1}}
    \cup {File("c", "text/plain", 2048), File("c", "text/plain", MaxImageSize + 1),
          File("d", "image/jpeg", 6291456)}

IsAnyType(type) == TRUE

\* file.type.startsWith('image/')
IsImageType(type) == type \in {"image/png", "image/jpeg"}

AcceptsBelowLimitOnly(file) == IsImageType(file.type) /\ file.size < MaxImageSize

\* the two validations of handleImageUpload
Accepts(file) == IsImageType(file.type) /\ ~(file.size > MaxImageSize)

\* FileReader.readAsDataURL: 'data:<type>;base64,<content>'
DataURI(file) == <<"data:", file.type, ";base64,", file.name>>

\* the src authored in the markup
MarkupImage == <<"images/profile.jpg">>

NoFile == File("", "", 0)

\* getItem('profileImage') of an absent key (null): no data URI
NoImage == <<>>

Notification(type, message) == [type |-> type, message |-> message]

\* no notification was shown since the load
NoNotification == Notification("none", "")

\* loadSavedData of script.js: src of #profileImg after load
LoadedImage(saved) == IF saved # NoImage THEN saved ELSE MarkupImage

-----------------------------------------------------------------------------
(* Mobile menu *)

Widths == {480, 768, 769}

\* widths above it are desktop widths
DesktopBreakpoint == 768

\* the menu is open: the flag of script.js, the class in main.js
MenuOpen == IF page = "script" THEN isMenuOpen ELSE navMenuActive

-----------------------------------------------------------------------------
(* Statistics fetch *)

NoCalls == [user |-> 0, reposOk |-> 0, reposNotOk |-> 0]

\* a response arrives with ok, arrives with a non-success status, or the
\* promise rejects
Outcomes == {"ok", "notOk", "rejected"}

-----------------------------------------------------------------------------
(* Enter-viewport animations *)

\* #skills (a section), .funfact-section, and an element of class 'reveal'
Watched == {"skills", "funfact", "card"}

\* script.js: initializeIntersectionObserver (one per initializeApp call),
\* the observer of initAboutAnimations (one per call), and
\* initializeEnhancedScrollAnimations; main.js: initIntersectionObserver,
\* initSkillsAnimations, initModernScrollReveal
Observers == {"io1", "io2", "fun1", "fun2", "esa", "sections", "skillsIO", "reveal"}

\* observers whose callback ends with observer.unobserve(entry.target)
OneShot == {"io1", "io2", "fun1", "fun2", "skillsIO"}

\* the elements the observer's selector matches
Targets(o) ==
    CASE o \in {"io1", "io2"}   -> {"skills", "card"}
      [] o \in {"fun1", "fun2"} -> {"funfact"}
      [] o = "esa"              -> {"skills", "card"}
      [] o = "sections"         -> {"skills"}
      [] o = "skillsIO"         -> {"skills"}
      [] o = "reveal"           -> {"card"}

\* the .level-bar elements, in document order
Bars == 1..2

\* the fill the markup gives bar b: the inline width on a js/script.js page,
\* the data-level attribute on a js/main.js page
AuthoredWidth(b) == 100 - 15 * b

\* a bar as the markup has it; -1 is an attribute or inline width not set
MarkupBars ==
    [b \in Bars |-> IF page = "main" THEN [data |-> AuthoredWidth(b), width |-> -1]
                                     ELSE [data |-> -1, width |-> AuthoredWidth(b)]]

\* data-width takes the current inline width, which is then set to '0%'
initializeSkillBars(bars) == [b \in Bars |-> [data |-> bars[b].width, width |-> 0]]

\* the bars after the load: initializeSkillBars once per call of initializeApp
LoadedSkillBars ==
    IF page = "main" \/ ~Reached("initializeSkillBars") THEN MarkupBars
    ELSE IF InitRuns = 2 THEN initializeSkillBars(initializeSkillBars(MarkupBars))
    ELSE initializeSkillBars(MarkupBars)

\* the delay between two consecutive bars, in ms
ScriptStagger == 150
MainStagger == 200

Stagger == IF page = "main" THEN MainStagger ELSE ScriptStagger

\* one observer per call of initializeApp
RunObservers(names) == {names[i] : i \in 1..InitRuns}

\* the observers a page load creates at once
CreatedAtLoad ==
    IF page = "main" THEN {"sections", "skillsIO", "reveal"}
    ELSE (IF Reached("initializeIntersectionObserver")
          THEN RunObservers(<<"io1", "io2">>) ELSE {})
         \cup
         (IF Completed("initAboutAnimations")
          THEN RunObservers(<<"fun1", "fun2">>) ELSE {})

LoadedObserved == [o \in Observers |-> IF o \in CreatedAtLoad THEN Targets(o) ELSE {}]

\* enhancedInit is reached, so its timeout is set
EnhancedInitScheduled ==
    page = "script" /\ readyState = "loading" /\ AbortIndex = 0

-----------------------------------------------------------------------------
(* Page load *)

\* nav links marked active in the markup: none, or the first one
MarkupActive == {{}, {"home"}}

LoadedAppTheme(pg, saved) == IF pg = "script" THEN AppThemeInit(saved) ELSE null

\* initializeTheme of script.js: body data-theme := APP.state.theme
LoadedBodyTheme(pg, saved) == LoadedAppTheme(pg, saved)

\* Portfolio.initTheme, then autoTheme
LoadedHtmlTheme(pg, saved, prefers, h) ==
    IF pg = "main" THEN autoTheme(initTheme(saved, prefers), h) ELSE null

\* body data-theme after load: set by initializeTheme when it is reached
LoadedBody ==
    IF page = "script" /\ ~BodyThemeSet THEN null ELSE LoadedBodyTheme(page, lsTheme)

\* loadSavedData runs when initializeEditableFields finds both buttons
SavedDataLoaded == page = "script" /\ EditListeners

LoadedFields ==
    IF page = "script" /\ ~SavedDataLoaded THEN markupText
    ELSE LoadedFieldText(page, markupText, lsPersonalData)

LoadedProfileImg ==
    IF SavedDataLoaded /\ "profileImg" \in present THEN LoadedImage(lsProfileImage)
    ELSE MarkupImage

LoadedWarn == SavedDataLoaded /\ loadWarns(lsPersonalData)

\* a call of initializeApp ended by throwing
LoadedError == page = "script" /\ AbortIndex # 0

Init ==
    /\ page \in Pages
    /\ present \in Markups
    /\ readyState \in ReadyStates
    /\ touchDevice \in BOOLEAN
    /\ page = "main" => (present = Elements /\ readyState = "loading")
    /\ innerWidth \in Widths
    /\ lsTheme \in StoredThemes
    /\ lsPersonalData \in StoredPersonalData
    /\ lsProfileImage \in {NoImage, DataURI(File("b", "image/png", 2048))}
    /\ prefersDark \in BOOLEAN
    /\ hour \in Hours
    /\ sections \in SectionLayouts
    /\ markupText \in [Fields -> MarkupTexts]
    /\ markupActive \in MarkupActive
    /\ activeLinks = markupActive
    /\ appTheme = LoadedAppTheme(page, lsTheme)
    /\ bodyTheme = LoadedBody
    /\ htmlTheme = LoadedHtmlTheme(page, lsTheme, prefersDark, hour)
    /\ scrollY = 0
    /\ scrollPending = FALSE
    /\ currentSection = null
    /\ navbarScrolled = FALSE
    /\ backToTopVisible = FALSE
    /\ isMenuOpen = FALSE
    /\ hamburgerActive = FALSE
    /\ navMenuActive = FALSE
    /\ isEditing = FALSE
    /\ fieldText = LoadedFields
    /\ fieldInput = [f \in Fields |-> NoInput]
    /\ focused = null
    /\ editBtnShown = TRUE
    /\ saveBtnShown = FALSE
    /\ updateBtnSave = FALSE
    /\ profileImgSrc = LoadedProfileImg
    /\ reads = {}
    /\ lastFile = NoFile
    /\ lastAccepted = NoFile
    /\ resizePending = FALSE
    /\ orientationTimers = 0
    /\ fetchCalls = [NoCalls EXCEPT !.user = FetchCalls]
    /\ userRequests = FetchCalls
    /\ repoRequests = 0
    /\ statsShown = "markup"
    /\ enhancedPending = EnhancedInitScheduled
    /\ observed = LoadedObserved
    /\ inView = {}
    /\ animCount = [e \in Watched |-> 0]
    /\ lastNotification = NoNotification
    /\ lastWarn = LoadedWarn
    /\ menuWasOpen = FALSE
    /\ enteredText = NoSave
    /\ dbWait = 0
    /\ dbTimer = -1
    /\ dbArgs = 0
    /\ dbEvents = 0
    /\ dbCalls = 0
    /\ dbSeen = 0
    /\ notes = <<>>
    /\ typeStart = 0
    /\ typeTimers = 0
    /\ torn = "no"
    /\ lateStep = FALSE
    /\ skillBars = LoadedSkillBars
    /\ skillTimers = 0
    /\ barTimers = [b \in Bars |-> 0]
    /\ barDelay = [b \in Bars |-> -1]
    /\ lastOp = "load"
    /\ lastError = LoadedError
    /\ themeLog = <<>>
    /\ lastToggled = null
    /\ savedInputs = NoSave

\* The page is loaded again: the scripts run from the top against the markup
\* and whatever localStorage holds.  Pending timers, reads and requests of
\* the page left behind are dropped with it.
PageLoad ==
    /\ activeLinks' = markupActive
    /\ appTheme' = LoadedAppTheme(page, lsTheme)
    /\ bodyTheme' = LoadedBody
    /\ htmlTheme' = LoadedHtmlTheme(page, lsTheme, prefersDark, hour)
    /\ scrollY' = 0
    /\ scrollPending' = FALSE
    /\ currentSection' = null
    /\ navbarScrolled' = FALSE
    /\ backToTopVisible' = FALSE
    /\ isMenuOpen' = FALSE
    /\ hamburgerActive' = FALSE
    /\ navMenuActive' = FALSE
    /\ isEditing' = FALSE
    /\ fieldText' = LoadedFields
    /\ fieldInput' = [f \in Fields |-> NoInput]
    /\ focused' = null
    /\ editBtnShown' = TRUE
    /\ saveBtnShown' = FALSE
    /\ updateBtnSave' = FALSE
    /\ profileImgSrc' = LoadedProfileImg
    /\ reads' = {}
    /\ resizePending' = FALSE
    /\ orientationTimers' = 0
    /\ fetchCalls' = [NoCalls EXCEPT !.user = FetchCalls]
    /\ userRequests' = FetchCalls
    /\ repoRequests' = 0
    /\ statsShown' = "markup"
    /\ enhancedPending' = EnhancedInitScheduled
    /\ observed' = LoadedObserved
    /\ inView' = {}
    /\ animCount' = [e \in Watched |-> 0]
    /\ lastNotification' = NoNotification
    /\ lastWarn' = LoadedWarn
    /\ menuWasOpen' = FALSE
    /\ enteredText' = NoSave
    /\ dbWait' = 0
    /\ dbTimer' = -1
    /\ dbArgs' = 0
    /\ dbEvents' = 0
    /\ dbCalls' = 0
    /\ dbSeen' = 0
    /\ notes' = <<>>
    /\ typeStart' = 0
    /\ typeTimers' = 0
    /\ torn' = "no"
    /\ lateStep' = FALSE
    /\ skillBars' = LoadedSkillBars
    /\ skillTimers' = 0
    /\ barTimers' = [b \in Bars |-> 0]
    /\ barDelay' = [b \in Bars |-> -1]
    /\ lastAccepted' = NoFile
    /\ lastOp' = "load"
    /\ lastError' = LoadedError
    /\ themeLog' = <<>>
    /\ lastToggled' = null
    /\ UNCHANGED <<page, storageVars, lsProfileImage, prefersDark, hour, sections,
                   markupActive, markupText, savedInputs, envVars, lastFile>>

-----------------------------------------------------------------------------
(* Theme actions *)

\* the text of toggleTheme's notification (diacritics dropped)
ThemeMessage(t) ==
    IF t = "dark" THEN "Da chuyen sang che do toi" ELSE "Da chuyen sang che do sang"

ToggleThemeScriptNoPersist ==
    /\ page = "script"
    /\ appTheme' = ScriptNextTheme(appTheme)
    /\ bodyTheme' = appTheme'
    /\ themeLog' = LogToggle(appTheme, appTheme')
    /\ lastToggled' = appTheme'
    /\ lastOp' = "toggleTheme"
    /\ lastError' = FALSE
    /\ UNCHANGED <<page, restVars, lastNotification, storageVars, htmlTheme, prefersDark,
                   hour, scrollVars,
                   menuVars, editVars, savedInputs>>

\* toggleTheme of script.js (click on #themeToggle)
ToggleThemeScript ==
    /\ page = "script"
    /\ ThemeListener
    /\ appTheme' = ScriptNextTheme(appTheme)
    /\ bodyTheme' = appTheme'
    /\ lsTheme' = appTheme'
    /\ lastNotification' = Notification("success", ThemeMessage(appTheme'))
    /\ themeLog' = LogToggle(appTheme, appTheme')
    /\ lastToggled' = appTheme'
    /\ lastOp' = "toggleTheme"
    /\ lastError' = FALSE
    /\ UNCHANGED <<page, restVars, lsPersonalData, htmlTheme, prefersDark, hour, scrollVars,
                   menuVars, editVars, savedInputs>>

\* Portfolio.toggleTheme (click on .theme-toggle, or Ctrl/Cmd + D)
ToggleThemeMain ==
    /\ page = "main"
    /\ htmlTheme' = MainNextTheme(htmlTheme)
    /\ lsTheme' = htmlTheme'
    /\ lastNotification' = Notification("success", "Theme changed successfully!")
    /\ themeLog' = LogToggle(htmlTheme, htmlTheme')
    /\ lastToggled' = htmlTheme'
    /\ lastOp' = "toggleTheme"
    /\ lastError' = FALSE
    /\ UNCHANGED <<page, restVars, lsPersonalData, appTheme, bodyTheme, prefersDark, hour,
                   scrollVars, menuVars, editVars, savedInputs>>

\* The local hour changes; no listener runs.
TimePasses ==
    \E h \in Hours :
        /\ h # hour
        /\ hour' = h
        /\ lastOp' = "time"
        /\ lastError' = FALSE
        /\ UNCHANGED <<page, restVars, lastNotification, storageVars, appTheme, bodyTheme,
                       htmlTheme, prefersDark,
                       scrollVars, menuVars, editVars, themeLog, lastToggled,
                       savedInputs>>

SystemPrefChangeAlways ==
    /\ prefersDark' = ~prefersDark
    /\ htmlTheme' = IF page = "main"
                    THEN (IF prefersDark' THEN "dark" ELSE "light")
                    ELSE htmlTheme
    /\ lastOp' = "systemPref"
    /\ lastError' = FALSE
    /\ UNCHANGED <<page, restVars, lastNotification, storageVars, appTheme, bodyTheme,
                   hour, scrollVars, menuVars, editVars, themeLog, lastToggled,
                   savedInputs>>

\* The system colour scheme changes; main.js listens for the change event.
SystemPrefChange ==
    /\ prefersDark' = ~prefersDark
    /\ htmlTheme' = IF page = "main" /\ ~Truthy(lsTheme)
                    THEN (IF prefersDark' THEN "dark" ELSE "light")
                    ELSE htmlTheme
    /\ lastOp' = "systemPref"
    /\ lastError' = FALSE
    /\ UNCHANGED <<page, restVars, lastNotification, storageVars, appTheme, bodyTheme,
                   hour, scrollVars,
                   menuVars, editVars, themeLog, lastToggled, savedInputs>>

-----------------------------------------------------------------------------
(* Scroll and navigation actions *)

\* the window is scrolled: a scroll event (re)starts the debounce timer
Scroll ==
    \E y \in ScrollPositions :
        /\ y # scrollY
        /\ scrollY' = y
        /\ scrollPending' = TRUE
        /\ lastOp' = "scroll"
        /\ lastError' = FALSE
        /\ UNCHANGED <<page, restVars, lastNotification, storageVars, themeVars, sections,
                       markupActive, currentSection,
                       activeLinks, navbarScrolled, backToTopVisible, menuVars,
                       editVars, themeLog, lastToggled, savedInputs>>

\* handleScroll of initializeNavigation, when its timer fires
\* APP.elements.navbar and APP.elements.backToTop are dereferenced unguarded
ScrollSampleScript ==
    /\ page = "script"
    /\ scrollPending
    /\ scrollPending' = FALSE
    /\ IF "navbar" \notin present
       THEN UNCHANGED <<navbarScrolled, currentSection, activeLinks, backToTopVisible>>
       ELSE /\ navbarScrolled' = (scrollY > NavbarThreshold)
            /\ currentSection' = getCurrentSection(sections, scrollY)
            /\ activeLinks' = LinksFor(currentSection')
            /\ backToTopVisible' = IF "backToTop" \in present
                                   THEN scrollY > scrollThreshold
                                   ELSE backToTopVisible
    /\ lastOp' = "scrollSample"
    /\ lastError' = ~({"navbar", "backToTop"} \subseteq present)
    /\ UNCHANGED <<page, restVars, lastNotification, storageVars, themeVars, sections,
                   markupActive, scrollY, menuVars,
                   editVars, themeLog, lastToggled, savedInputs>>

\* the debounced scroll listeners of main.js, when their timers have fired:
\* Portfolio.updateActiveNavigation, Portfolio.initScrollEffects and
\* Portfolio.initBackToTop
ScrollSampleMain ==
    /\ page = "main"
    /\ scrollPending
    /\ scrollPending' = FALSE
    /\ currentSection' = MainCurrent(sections, scrollY)
    /\ activeLinks' = LinksFor(currentSection')
    /\ navbarScrolled' = (scrollY > NavbarThreshold)
    /\ backToTopVisible' = (scrollY > MainBackToTopThreshold)
    /\ lastOp' = "scrollSample"
    /\ lastError' = FALSE
    /\ UNCHANGED <<page, restVars, lastNotification, storageVars, themeVars, sections,
                   markupActive, scrollY, menuVars, editVars, themeLog, lastToggled,
                   savedInputs>>

\* window.scrollTo({top: target.offsetTop - offset, behavior: 'smooth'})
SmoothScrollTo(id) ==
    /\ scrollY' = Max(0, TargetTop(sections, id) - FixedOffset)
    /\ scrollPending' = (scrollPending \/ scrollY' # scrollY)

\* toggleMobileMenu of script.js; its callers are registered only on a page
\* with a hamburger, APP.elements.navMenu is dereferenced unguarded
toggleMobileMenu ==
    /\ isMenuOpen' = ~isMenuOpen
    /\ hamburgerActive' = isMenuOpen'
    /\ navMenuActive' = IF "navMenu" \in present THEN isMenuOpen' ELSE navMenuActive
    /\ lastError' = ("navMenu" \notin present)

NavLinkClickScriptFlagOnly ==
    \E l \in NavLinks :
        /\ page = "script"
        /\ NavListeners
        /\ IF l \in SectionIds(sections)
           THEN /\ SmoothScrollTo(l)
                /\ isMenuOpen' = FALSE
                /\ UNCHANGED <<hamburgerActive, navMenuActive>>
           ELSE UNCHANGED <<scrollY, scrollPending, menuVars>>
        /\ lastError' = FALSE
        /\ menuWasOpen' = isMenuOpen
        /\ lastOp' = "navClick"
        /\ UNCHANGED <<page, restOfMenu, lastNotification, storageVars, themeVars, sections,
                       markupActive, currentSection, activeLinks, navbarScrolled,
                       backToTopVisible, editVars, themeLog, lastToggled, savedInputs>>

\* handleNavLinkClick of script.js
NavLinkClickScript ==
    \E l \in NavLinks :
        /\ page = "script"
        /\ NavListeners
        /\ IF l \in SectionIds(sections)
           THEN /\ SmoothScrollTo(l)
                /\ IF isMenuOpen THEN toggleMobileMenu
                   ELSE UNCHANGED menuVars /\ lastError' = FALSE
           ELSE UNCHANGED <<scrollY, scrollPending, menuVars>> /\ lastError' = FALSE
        /\ menuWasOpen' = isMenuOpen
        /\ lastOp' = "navClick"
        /\ UNCHANGED <<page, restOfMenu, lastNotification, storageVars, themeVars,
                       sections, markupActive, currentSection,
                       activeLinks, navbarScrolled, backToTopVisible, editVars,
                       themeLog, lastToggled, savedInputs>>

NavLinkClickMainKeepOthers ==
    \E l \in NavLinks :
        /\ page = "main"
        /\ IF l \in SectionIds(sections)
           THEN /\ SmoothScrollTo(l)
                /\ hamburgerActive' = FALSE
                /\ navMenuActive' = FALSE
           ELSE UNCHANGED <<scrollY, scrollPending, hamburgerActive, navMenuActive>>
        /\ activeLinks' = activeLinks \cup {l}
        /\ menuWasOpen' = navMenuActive
        /\ lastOp' = "navClick"
        /\ lastError' = FALSE
        /\ UNCHANGED <<page, restOfMenu, lastNotification, storageVars, themeVars,
                       sections, markupActive, currentSection,
                       navbarScrolled, backToTopVisible, isMenuOpen, editVars,
                       themeLog, lastToggled, savedInputs>>

\* the two click listeners main.js puts on a nav link: Portfolio.initNavigation
\* (acts when the target exists), then Portfolio.initModernNavigation (always)
NavLinkClickMain ==
    \E l \in NavLinks :
        /\ page = "main"
        /\ IF l \in SectionIds(sections)
           THEN /\ SmoothScrollTo(l)
                /\ hamburgerActive' = FALSE
                /\ navMenuActive' = FALSE
           ELSE UNCHANGED <<scrollY, scrollPending, hamburgerActive, navMenuActive>>
        /\ activeLinks' = {l}
        /\ menuWasOpen' = navMenuActive
        /\ lastOp' = "navClick"
        /\ lastError' = FALSE
        /\ UNCHANGED <<page, restOfMenu, lastNotification, storageVars, themeVars,
                       sections, markupActive, currentSection,
                       navbarScrolled, backToTopVisible, isMenuOpen, editVars,
                       themeLog, lastToggled, savedInputs>>

-----------------------------------------------------------------------------
(* Inline editing, script.js *)

\* enableEditing; APP.elements.editButton and APP.elements.saveButton are
\* dereferenced unguarded, after the flag is set.  The text of a field that
\* holds an input is empty (an input has no text content).
EnableEditing ==
    /\ isEditing' = TRUE
    /\ IF {"editButton", "saveButton"} \subseteq present
       THEN /\ editBtnShown' = FALSE
            /\ saveBtnShown' = TRUE
            /\ fieldInput' = [f \in Fields |-> NewInput(Trim(fieldText[f]))]
            /\ fieldText' = [f \in Fields |-> <<>>]
            /\ focused' = FieldOrder[1]
            /\ lastNotification' = Notification("info", "Da bat che do chinh sua")
            /\ lastError' = FALSE
       ELSE /\ editBtnShown' = IF "editButton" \in present THEN FALSE ELSE editBtnShown
            /\ lastError' = TRUE
            /\ UNCHANGED <<saveBtnShown, fieldInput, fieldText, focused,
                           lastNotification>>
    /\ enteredText' = fieldText
    /\ lastOp' = "enableEditing"
    /\ savedInputs' = NoSave
    /\ UNCHANGED <<page, restOfEdit, storageVars, themeVars, scrollVars, menuVars,
                   markupText, updateBtnSave, themeLog, lastToggled>>

\* click on #editPersonalInfo while it is displayed
EditButtonClick ==
    /\ page = "script"
    /\ EditListeners
    /\ editBtnShown
    /\ EnableEditing

\* a click event dispatched to #editPersonalInfo while enableEditing has
\* hidden it (HTMLElement.click() and dispatchEvent deliver whatever the
\* display): the listener is enableEditing itself, which tests nothing
EditButtonDispatchedClick ==
    /\ page = "script"
    /\ EditListeners
    /\ ~editBtnShown
    /\ EnableEditing

\* Ctrl/Cmd + E
EditShortcutScript ==
    /\ page = "script"
    /\ KeyListeners
    /\ ~isEditing
    /\ EnableEditing

\* index of the first field without an .edit-input, 0 when every field has one
FirstWithoutInput ==
    LET m == {i \in 1..Len(FieldOrder) : ~fieldInput[FieldOrder[i]].present}
    IN  IF m = {} THEN 0 ELSE CHOOSE i \in m : \A j \in m : i <= j

IndexOf(f) == CHOOSE i \in 1..Len(FieldOrder) : FieldOrder[i] = f

\* saveChanges of script.js; input.value throws on a field without an input
saveChanges ==
    LET k == FirstWithoutInput
    IN  IF k = 0
        THEN /\ fieldText' = [f \in Fields |-> SaveText(f, fieldInput[f])]
             /\ fieldInput' = [f \in Fields |-> NoInput]
             /\ lsPersonalData' = JSONstringify(SaveData(fieldInput, Len(FieldOrder)))
             /\ isEditing' = FALSE
             /\ editBtnShown' = TRUE
             /\ saveBtnShown' = FALSE
             /\ focused' = null
             /\ savedInputs' = InputValues
             /\ enteredText' = NoSave
             /\ lastNotification' =
                    Notification("success", "Thong tin da duoc luu thanh cong!")
             /\ lastOp' = "save"
             /\ lastError' = FALSE
             /\ UNCHANGED <<page, restOfEdit, lsTheme, themeVars, scrollVars, menuVars,
                            markupText, updateBtnSave, themeLog, lastToggled>>
        ELSE /\ fieldText' = [f \in Fields |->
                                 IF IndexOf(f) < k THEN SaveText(f, fieldInput[f])
                                 ELSE fieldText[f]]
             /\ fieldInput' = [f \in Fields |->
                                 IF IndexOf(f) < k THEN NoInput ELSE fieldInput[f]]
             /\ focused' = IF focused # null /\ fieldInput'[focused].present
                           THEN focused ELSE null
             /\ lastOp' = "save"
             /\ lastError' = TRUE
             /\ UNCHANGED <<page, restVars, lastNotification, storageVars, themeVars,
                            scrollVars, menuVars,
                            isEditing, markupText, editBtnShown, saveBtnShown,
                            updateBtnSave, themeLog, lastToggled, savedInputs>>

\* click on #savePersonalInfo
SaveButtonClick ==
    /\ page = "script"
    /\ EditListeners
    /\ saveBtnShown
    /\ saveChanges

\* Ctrl/Cmd + S
SaveShortcutScript ==
    /\ page = "script"
    /\ KeyListeners
    /\ isEditing
    /\ saveChanges

-----------------------------------------------------------------------------
(* Inline editing, main.js *)

\* Portfolio.finishEditing: the field's text afterwards
finishEditing(input) == input.value

\* Portfolio.saveChanges: every remaining input is finished; nothing is stored
MainSaveChanges ==
    /\ fieldText' = [f \in Fields |-> IF fieldInput[f].present
                                      THEN finishEditing(fieldInput[f])
                                      ELSE fieldText[f]]
    /\ fieldInput' = [f \in Fields |-> NoInput]
    /\ focused' = null
    /\ isEditing' = FALSE
    /\ updateBtnSave' = FALSE
    /\ savedInputs' = InputValues
    /\ enteredText' = NoSave
    /\ lastNotification' = Notification("success", "Changes saved successfully!")
    /\ lastOp' = "save"
    /\ lastError' = FALSE
    /\ UNCHANGED <<page, restOfEdit, storageVars, themeVars, scrollVars, menuVars, markupText,
                   editBtnShown, saveBtnShown, themeLog, lastToggled>>

\* Portfolio.toggleEditMode entering edit mode: makeEditable on each field in
\* order.  Each input.focus() blurs the input made before it, whose blur
\* listener finishes that field, so only the last field keeps its input.
MainEnterEditMode ==
    LET last == FieldOrder[Len(FieldOrder)]
    IN  /\ isEditing' = TRUE
        /\ fieldInput' = [f \in Fields |->
                             IF f = last THEN NewInput(Trim(fieldText[f])) ELSE NoInput]
        /\ fieldText' = [f \in Fields |->
                            IF f = last THEN fieldText[f]
                            ELSE finishEditing(NewInput(Trim(fieldText[f])))]
        /\ focused' = last
        /\ updateBtnSave' = TRUE
        /\ savedInputs' = NoSave
        /\ enteredText' = fieldText
        /\ lastNotification' =
               Notification("info", "Edit mode enabled! Click on text to edit.")
        /\ lastOp' = "enableEditing"
        /\ lastError' = FALSE
        /\ UNCHANGED <<page, restOfEdit, storageVars, themeVars, scrollVars, menuVars,
                       markupText, editBtnShown, saveBtnShown, themeLog,
                       lastToggled>>

\* Portfolio.toggleEditMode (click on .update-btn, or Ctrl/Cmd + E)
ToggleEditMode ==
    /\ page = "main"
    /\ IF ~isEditing THEN MainEnterEditMode ELSE MainSaveChanges

\* Ctrl/Cmd + S
SaveShortcutMain ==
    /\ page = "main"
    /\ isEditing
    /\ MainSaveChanges

\* blur, or Enter, on a field's input: finishEditing
FieldFinish ==
    \E f \in Fields :
        /\ page = "main"
        /\ fieldInput[f].present
        /\ focused = f
        /\ fieldText' = [fieldText EXCEPT ![f] = finishEditing(fieldInput[f])]
        /\ fieldInput' = [fieldInput EXCEPT ![f] = NoInput]
        /\ focused' = null
        /\ lastOp' = "fieldFinish"
        /\ lastError' = FALSE
        /\ UNCHANGED <<page, restVars, lastNotification, storageVars, themeVars,
                       scrollVars, menuVars, isEditing,
                       markupText, editBtnShown, saveBtnShown, updateBtnSave,
                       themeLog, lastToggled, savedInputs>>

\* Escape on a field's input: the value is reset to the text captured by
\* makeEditable, then finishEditing
FieldEscape ==
    \E f \in Fields :
        /\ page = "main"
        /\ fieldInput[f].present
        /\ focused = f
        /\ fieldText' = [fieldText EXCEPT
                            ![f] = finishEditing([fieldInput[f] EXCEPT
                                                     !.value = fieldInput[f].orig])]
        /\ fieldInput' = [fieldInput EXCEPT ![f] = NoInput]
        /\ focused' = null
        /\ lastOp' = "fieldEscape"
        /\ lastError' = FALSE
        /\ UNCHANGED <<page, restVars, lastNotification, storageVars, themeVars,
                       scrollVars, menuVars, isEditing,
                       markupText, editBtnShown, saveBtnShown, updateBtnSave,
                       themeLog, lastToggled, savedInputs>>

-----------------------------------------------------------------------------
(* Input controls, both scripts *)

\* the user puts the focus on another field's input; on a main.js page the
\* input that loses the focus is finished by its blur listener
FocusInput ==
    \E f \in Fields :
        /\ fieldInput[f].present
        /\ focused # f
        /\ focused' = f
        /\ IF page = "main" /\ focused # null /\ fieldInput[focused].present
           THEN /\ fieldText' = [fieldText EXCEPT
                                    ![focused] = finishEditing(fieldInput[focused])]
                /\ fieldInput' = [fieldInput EXCEPT ![focused] = NoInput]
           ELSE UNCHANGED <<fieldText, fieldInput>>
        /\ lastOp' = "focus"
        /\ lastError' = FALSE
        /\ UNCHANGED <<page, restVars, lastNotification, storageVars, themeVars,
                       scrollVars, menuVars, isEditing,
                       markupText, editBtnShown, saveBtnShown, updateBtnSave,
                       themeLog, lastToggled, savedInputs>>

\* the user replaces the text of the focused input
TypeInput ==
    \E f \in Fields, v \in TypedTexts :
        /\ fieldInput[f].present
        /\ focused = f
        /\ fieldInput[f].value # v
        /\ fieldInput' = [fieldInput EXCEPT ![f].value = v]
        /\ lastOp' = "type"
        /\ lastError' = FALSE
        /\ UNCHANGED <<page, restVars, lastNotification, storageVars, themeVars,
                       scrollVars, menuVars, isEditing,
                       markupText, fieldText, focused, editBtnShown, saveBtnShown,
                       updateBtnSave, themeLog, lastToggled, savedInputs>>

-----------------------------------------------------------------------------
(* Profile image upload, script.js *)

\* variables no image, menu, fetch or observer handler writes
pageVars == <<storageVars, themeVars, scrollVars, editVars, themeLog, lastToggled,
              savedInputs, lastWarn, enteredText>>

\* the text of the error notification (diacritics dropped)
RejectMessage(file) ==
    IF ~IsImageType(file.type) THEN "Vui long chon file hinh anh hop le"
    ELSE "Kich thuoc file khong duoc vuot qua 5MB"

\* handleImageUpload: 'change' on #imageUpload with the file chosen, or with
\* no file when the dialog is cancelled
SelectFile ==
    \E file \in Files \cup {NoFile} :
        /\ UploadListener
        /\ Accepts(file) => Cardinality(reads \cup {file}) <= MaxReads
        /\ IF file = NoFile THEN UNCHANGED <<reads, lastNotification>>
           ELSE IF Accepts(file)
                THEN reads' = reads \cup {file} /\ UNCHANGED lastNotification
                ELSE /\ lastNotification' = Notification("error", RejectMessage(file))
                     /\ UNCHANGED reads
        /\ lastFile' = file
        /\ lastAccepted' = IF file # NoFile /\ Accepts(file) THEN file ELSE lastAccepted
        /\ lastOp' = "selectFile"
        /\ lastError' = FALSE
        /\ UNCHANGED <<page, pageVars, menuVars, menuWasOpen, envVars, timerVars,
                       fetchVars, revealVars, laterVars, profileImgSrc, lsProfileImage>>

\* reader.onload
ReadComplete ==
    \E file \in reads :
        /\ reads' = reads \ {file}
        /\ profileImgSrc' = DataURI(file)
        /\ lastNotification' =
               Notification("success", "Anh da duoc cap nhat thanh cong!")
        /\ lsProfileImage' = DataURI(file)
        /\ lastFile' = file
        /\ lastOp' = "readComplete"
        /\ lastError' = FALSE
        /\ UNCHANGED <<page, pageVars, menuVars, menuWasOpen, envVars, timerVars,
                       fetchVars, revealVars, laterVars, lastAccepted>>

\* the read fails: no onerror handler is set
ReadFails ==
    \E file \in reads :
        /\ reads' = reads \ {file}
        /\ lastFile' = file
        /\ lastAccepted' = IF file = lastAccepted THEN NoFile ELSE lastAccepted
        /\ lastOp' = "readFails"
        /\ lastError' = FALSE
        /\ UNCHANGED <<page, pageVars, menuVars, menuWasOpen, envVars, timerVars,
                       fetchVars, revealVars, laterVars, profileImgSrc, lsProfileImage,
                       lastNotification>>

-----------------------------------------------------------------------------
(* Mobile menu *)

\* variables no menu handler writes
menuRest == <<page, pageVars, imageVars, fetchVars, revealVars, laterVars,
              lastNotification,
              present, readyState, touchDevice>>

\* click on #hamburger (script.js); the click listener of the document sees
\* a target inside the hamburger and leaves the menu alone
HamburgerClickScript ==
    /\ page = "script"
    /\ NavListeners
    /\ toggleMobileMenu
    /\ menuWasOpen' = isMenuOpen
    /\ lastOp' = "hamburger"
    /\ UNCHANGED <<menuRest, innerWidth, timerVars>>

\* click on .hamburger (main.js): each class is toggled on its own element
HamburgerClickMain ==
    /\ page = "main"
    /\ hamburgerActive' = ~hamburgerActive
    /\ navMenuActive' = ~navMenuActive
    /\ menuWasOpen' = navMenuActive
    /\ lastOp' = "hamburger"
    /\ lastError' = FALSE
    /\ UNCHANGED <<menuRest, isMenuOpen, innerWidth, timerVars>>

\* click on a target outside the nav menu and the hamburger; with the menu
\* open, APP.elements.navMenu is dereferenced unguarded
OutsideClick ==
    /\ page = "script"
    /\ KeyListeners
    /\ IF ~isMenuOpen THEN UNCHANGED menuVars /\ lastError' = FALSE
       ELSE IF "navMenu" \in present THEN toggleMobileMenu
       ELSE UNCHANGED menuVars /\ lastError' = TRUE
    /\ menuWasOpen' = isMenuOpen
    /\ lastOp' = "outsideClick"
    /\ UNCHANGED <<menuRest, innerWidth, timerVars>>

EscapeKeyNoGuard ==
    /\ page = "script"
    /\ KeyListeners
    /\ toggleMobileMenu
    /\ menuWasOpen' = isMenuOpen
    /\ lastOp' = "escape"
    /\ UNCHANGED <<menuRest, innerWidth, timerVars>>

\* keydown with key 'Escape'
EscapeKey ==
    /\ page = "script"
    /\ KeyListeners
    /\ IF isMenuOpen THEN toggleMobileMenu
       ELSE UNCHANGED menuVars /\ lastError' = FALSE
    /\ menuWasOpen' = isMenuOpen
    /\ lastOp' = "escape"
    /\ UNCHANGED <<menuRest, innerWidth, timerVars>>

\* the window is resized: a resize event (re)starts the debounce timer
Resize ==
    \E w \in Widths :
        /\ w # innerWidth
        /\ innerWidth' = w
        /\ resizePending' = (page = "script" /\ KeyListeners)
        /\ lastOp' = "resize"
        /\ lastError' = FALSE
        /\ UNCHANGED <<menuRest, menuVars, menuWasOpen, orientationTimers>>

\* the debounced resize listener, when its timer fires
ResizeSample ==
    /\ page = "script"
    /\ resizePending
    /\ resizePending' = FALSE
    /\ IF innerWidth > DesktopBreakpoint /\ isMenuOpen THEN toggleMobileMenu
       ELSE UNCHANGED menuVars /\ lastError' = FALSE
    /\ menuWasOpen' = isMenuOpen
    /\ lastOp' = "resizeSample"
    /\ UNCHANGED <<menuRest, innerWidth, orientationTimers>>

\* orientationchange: the listener sets a timeout
OrientationChange ==
    /\ OrientationListener
    /\ orientationTimers < MaxTimers
    /\ orientationTimers' = orientationTimers + 1
    /\ lastOp' = "orientationChange"
    /\ lastError' = FALSE
    /\ UNCHANGED <<menuRest, menuVars, menuWasOpen, innerWidth, resizePending>>

\* a timeout of the orientationchange listener fires
OrientationTimer ==
    /\ page = "script"
    /\ orientationTimers > 0
    /\ orientationTimers' = orientationTimers - 1
    /\ IF isMenuOpen THEN toggleMobileMenu
       ELSE UNCHANGED menuVars /\ lastError' = FALSE
    /\ menuWasOpen' = isMenuOpen
    /\ lastOp' = "orientationTimer"
    /\ UNCHANGED <<menuRest, innerWidth, resizePending>>

\* touchmove on the nav menu, more than 50px upwards within 300ms of the
\* touchstart
SwipeUp ==
    /\ TouchListeners
    /\ "navMenu" \in present
    /\ IF isMenuOpen THEN toggleMobileMenu
       ELSE UNCHANGED menuVars /\ lastError' = FALSE
    /\ menuWasOpen' = isMenuOpen
    /\ lastOp' = "swipe"
    /\ UNCHANGED <<menuRest, innerWidth, timerVars>>

\* touchend on a link to a section (touch devices): the listener cancels
\* the click, scrolls and closes the menu like handleNavLinkClick
TouchEndLink ==
    \E l \in NavLinks :
        /\ TouchListeners
        /\ IF l \in SectionIds(sections)
           THEN /\ SmoothScrollTo(l)
                /\ IF isMenuOpen THEN toggleMobileMenu
                   ELSE UNCHANGED menuVars /\ lastError' = FALSE
           ELSE UNCHANGED <<scrollY, scrollPending, menuVars>> /\ lastError' = FALSE
        /\ menuWasOpen' = isMenuOpen
        /\ lastOp' = "touchEnd"
        /\ UNCHANGED <<page, restOfMenu, lastNotification, storageVars, themeVars,
                       sections, markupActive, currentSection, activeLinks,
                       navbarScrolled, backToTopVisible, editVars, themeLog,
                       lastToggled, savedInputs>>

-----------------------------------------------------------------------------
(* Statistics fetch, script.js *)

\* variables no fetch or observer step writes
calmVars == <<page, pageVars, menuVars, menuWasOpen, envVars, timerVars, imageVars,
              debounceVars, notes, lastNotification>>

quietVars == <<page, pageVars, menuVars, menuWasOpen, envVars, timerVars, imageVars,
               laterVars,
               lastNotification>>

\* fetchGitHubStats resumes after the user-profile request: on a rejection
\* (of fetch or of json()) the catch block shows the defaults; otherwise the
\* repository-list request is sent
UserResponse ==
    \E outcome \in Outcomes :
        /\ fetchCalls.user > 0
        /\ IF outcome = "rejected"
           THEN /\ fetchCalls' = [fetchCalls EXCEPT !.user = @ - 1]
                /\ statsShown' = "default"
                /\ UNCHANGED repoRequests
           ELSE /\ fetchCalls' =
                       IF outcome = "ok"
                       THEN [fetchCalls EXCEPT !.user = @ - 1, !.reposOk = @ + 1]
                       ELSE [fetchCalls EXCEPT !.user = @ - 1, !.reposNotOk = @ + 1]
                /\ repoRequests' = repoRequests + 1
                /\ UNCHANGED statsShown
        /\ lastOp' = "userResponse"
        /\ lastError' = FALSE
        /\ UNCHANGED <<quietVars, userRequests, revealVars>>

\* fetchGitHubStats resumes after the repository-list request
ReposResponse ==
    \E userOk \in BOOLEAN, outcome \in Outcomes :
        /\ IF userOk THEN fetchCalls.reposOk > 0 ELSE fetchCalls.reposNotOk > 0
        /\ fetchCalls' = IF userOk THEN [fetchCalls EXCEPT !.reposOk = @ - 1]
                         ELSE [fetchCalls EXCEPT !.reposNotOk = @ - 1]
        /\ statsShown' = IF userOk /\ outcome = "ok" THEN "fetched" ELSE "default"
        /\ lastOp' = "reposResponse"
        /\ lastError' = FALSE
        /\ UNCHANGED <<quietVars, userRequests, repoRequests, revealVars>>

-----------------------------------------------------------------------------
(* Enter-viewport animations *)

\* the observers that observe the element
Observing(el) == {o \in Observers : el \in observed[o]}

\* a watched element starts to intersect the viewport: every observer of it
\* gets an entry with isIntersecting, runs its animation branch (the
\* observers of initAboutAnimations set the timeout that starts their
\* typewriter), and a one-shot observer unobserves the element
ElementEnters ==
    \E el \in Watched \ inView :
        /\ animCount[el] + Cardinality(Observing(el)) <= MaxAnimations
        /\ inView' = inView \cup {el}
        /\ animCount' = [animCount EXCEPT ![el] = @ + Cardinality(Observing(el))]
        /\ observed' = [o \in Observers |->
                           IF o \in OneShot THEN observed[o] \ {el} ELSE observed[o]]
        /\ typeStart' = typeStart + Cardinality(Observing(el) \cap {"fun1", "fun2"})
        /\ lastOp' = "intersect"
        /\ lastError' = FALSE
        /\ skillTimers' = IF el = "skills"
                          THEN skillTimers + Cardinality(Observing(el) \cap {"io1", "io2"})
                          ELSE skillTimers
        /\ barTimers' = IF el = "skills"
                        THEN [b \in Bars |->
                                 barTimers[b] + Cardinality(Observing(el) \cap {"skillsIO"})]
                        ELSE barTimers
        /\ UNCHANGED <<calmVars, fetchVars, enhancedPending, typeTimers, torn, lateStep,
                       skillBars, barDelay>>

\* the element leaves the viewport: entries without isIntersecting
ElementLeaves ==
    \E el \in inView :
        /\ inView' = inView \ {el}
        /\ lastOp' = "leave"
        /\ lastError' = FALSE
        /\ UNCHANGED <<quietVars, fetchVars, enhancedPending, observed, animCount>>

\* the timeout of enhancedInit fires: initializeEnhancedScrollAnimations
\* observes its elements, and the new observer reports at once those that
\* intersect
EnhancedInitTimer ==
    /\ enhancedPending
    /\ enhancedPending' = FALSE
    /\ observed' = [observed EXCEPT !["esa"] = Targets("esa")]
    /\ animCount' = [e \in Watched |->
                        IF e \in inView \cap Targets("esa") THEN animCount[e] + 1
                        ELSE animCount[e]]
    /\ lastOp' = "enhancedInit"
    /\ lastError' = FALSE
    /\ UNCHANGED <<quietVars, fetchVars, inView>>

-----------------------------------------------------------------------------
(* Skill bars *)

\* the 500 ms timeout of the #skills branch fires: one fill timeout per bar
animateSkillBars ==
    /\ skillTimers > 0
    /\ skillTimers' = skillTimers - 1
    /\ barTimers' = [b \in Bars |-> barTimers[b] + 1]
    /\ lastOp' = "animateSkillBars"
    /\ lastError' = FALSE
    /\ UNCHANGED <<calmVars, fetchVars, revealVars, typeVars, skillBars, barDelay>>

\* the width a fill timeout gives its bar: data-width, or '0%' if that is
\* missing (script.js); data-level (main.js)
TargetWidth(bar) == IF page = "script" /\ bar.data = -1 THEN 0 ELSE bar.data

\* the fill timeout of bar b, set with the delay index * stagger, fires
BarTimer(b) ==
    /\ barTimers[b] > 0
    /\ barTimers' = [barTimers EXCEPT ![b] = @ - 1]
    /\ skillBars' = [skillBars EXCEPT ![b].width = TargetWidth(skillBars[b])]
    /\ barDelay' = [barDelay EXCEPT ![b] = (b - 1) * Stagger]
    /\ lastOp' = "barTimer"
    /\ lastError' = FALSE
    /\ UNCHANGED <<calmVars, fetchVars, revealVars, typeVars, skillTimers>>

-----------------------------------------------------------------------------
(* The typewriter of initAboutAnimations, script.js *)

\* the timeout set by the observer fires: the first typewriterEffect, which
\* sets typewriterTimeout
TypewriterStart ==
    /\ typeStart > 0
    /\ typeStart' = typeStart - 1
    /\ typeTimers' = typeTimers + 1
    /\ lateStep' = (lateStep \/ torn = "afterTrigger")
    /\ lastOp' = "typewriterStart"
    /\ lastError' = FALSE
    /\ UNCHANGED <<calmVars, fetchVars, revealVars, barVars, torn>>

\* typewriterTimeout fires: typewriterEffect types or deletes a character and
\* sets typewriterTimeout again in each of its four branches
typewriterEffect ==
    /\ typeTimers > 0
    /\ lateStep' = (lateStep \/ torn = "afterTrigger")
    /\ lastOp' = "typewriterEffect"
    /\ lastError' = FALSE
    /\ UNCHANGED <<calmVars, fetchVars, revealVars, barVars, typeStart, typeTimers, torn>>

\* beforeunload is dispatched (the page may stay: the navigation can be
\* cancelled or be a download): each listener registered by
\* initAboutAnimations clears its typewriterTimeout
BeforeUnload ==
    /\ typeTimers' = IF page = "script" /\ Completed("initAboutAnimations")
                     THEN 0 ELSE typeTimers
    /\ torn' = IF animCount["funfact"] > 0 THEN "afterTrigger" ELSE "beforeTrigger"
    /\ lastOp' = "beforeunload"
    /\ lastError' = FALSE
    /\ UNCHANGED <<calmVars, fetchVars, revealVars, barVars, typeStart, lateStep>>

-----------------------------------------------------------------------------
(* Utils.debounce / Portfolio.debounce *)

\* the page state no helper modelled on its own writes
baseVars == <<page, pageVars, menuVars, menuWasOpen, envVars, timerVars, imageVars,
              lastNotification, fetchVars, revealVars, typeVars, barVars>>

\* the arguments a debounced function is called with
Samples == 1..3

\* debounce(func, wait): the wrapper is created with no timeout pending
Debounce ==
    \E wait \in 1..MaxWait :
        /\ dbWait = 0
        /\ dbWait' = wait
        /\ lastOp' = "debounce"
        /\ lastError' = FALSE
        /\ UNCHANGED <<baseVars, notes, dbTimer, dbArgs, dbEvents, dbCalls, dbSeen>>

\* history of a call: it continues the burst while a timeout is pending, and
\* begins a new one otherwise
CountCall ==
    /\ dbTimer # -1 => dbEvents < MaxBurst
    /\ dbEvents' = IF dbTimer = -1 THEN 1 ELSE dbEvents + 1

DebouncedCallLeading ==
    \E sample \in Samples :
        /\ dbWait > 0
        /\ CountCall
        /\ dbArgs' = sample
        /\ dbTimer' = dbWait
        /\ dbCalls' = (IF dbTimer = -1 THEN 0 ELSE dbCalls) + 1
        /\ dbSeen' = sample
        /\ lastOp' = "debouncedCall"
        /\ lastError' = FALSE
        /\ UNCHANGED <<baseVars, notes, dbWait>>

\* executedFunction(...args): clearTimeout(timeout), then
\* timeout = setTimeout(later, wait)
DebouncedCall ==
    \E sample \in Samples :
        /\ dbWait > 0
        /\ CountCall
        /\ dbArgs' = sample
        /\ dbTimer' = dbWait
        /\ dbCalls' = IF dbTimer = -1 THEN 0 ELSE dbCalls
        /\ lastOp' = "debouncedCall"
        /\ lastError' = FALSE
        /\ UNCHANGED <<baseVars, notes, dbWait, dbSeen>>

\* one tick of time passes while the timeout is pending
DebounceTick ==
    /\ dbTimer > 0
    /\ dbTimer' = dbTimer - 1
    /\ lastOp' = "tick"
    /\ lastError' = FALSE
    /\ UNCHANGED <<baseVars, notes, dbWait, dbArgs, dbEvents, dbCalls, dbSeen>>

\* the timeout fires: later() runs func with the arguments of the call that
\* set it
DebounceLater ==
    /\ dbTimer = 0
    /\ dbTimer' = -1
    /\ dbCalls' = dbCalls + 1
    /\ dbSeen' = dbArgs
    /\ lastOp' = "later"
    /\ lastError' = FALSE
    /\ UNCHANGED <<baseVars, notes, dbWait, dbArgs, dbEvents>>

-----------------------------------------------------------------------------
(* Notification elements: Utils.showNotification / Portfolio.showNotification *)

\* a notification element: attached to document.body, carrying 'show', with
\* its deferred 'show' step, its auto-dismiss timeout and some removal
\* timeouts pending; removals counts the removeChild calls made on it
Note(attached, shown, showPending, autoPending, removePending, removals) ==
    [attached |-> attached, shown |-> shown, showPending |-> showPending,
     autoPending |-> autoPending, removePending |-> removePending,
     removals |-> removals]

\* showNotification: the element is appended, the 'show' step deferred
\* (requestAnimationFrame in script.js, a timeout in main.js) and the
\* auto-dismiss timeout set
ShowNotification ==
    /\ Len(notes) < MaxNotes
    /\ notes' = Append(notes, Note(TRUE, FALSE, TRUE, TRUE, 0, 0))
    /\ lastOp' = "showNotification"
    /\ lastError' = FALSE
    /\ UNCHANGED <<baseVars, debounceVars>>

\* the deferred step adds 'show'
NotificationShown(i) ==
    /\ i \in 1..Len(notes)
    /\ notes[i].showPending
    /\ notes' = [notes EXCEPT ![i].showPending = FALSE, ![i].shown = TRUE]
    /\ lastOp' = "notificationShown"
    /\ lastError' = FALSE
    /\ UNCHANGED <<baseVars, debounceVars>>

\* removeNotification / hideNotification: 'show' is removed and a removal
\* timeout set
removeNotification(i) ==
    notes' = [notes EXCEPT ![i].shown = FALSE, ![i].removePending = @ + 1]

\* the auto-dismiss timeout fires
AutoDismiss(i) ==
    /\ i \in 1..Len(notes)
    /\ notes[i].autoPending
    /\ notes' = [notes EXCEPT ![i].autoPending = FALSE, ![i].shown = FALSE,
                               ![i].removePending = @ + 1]
    /\ lastOp' = "autoDismiss"
    /\ lastError' = FALSE
    /\ UNCHANGED <<baseVars, debounceVars>>

\* click on the close button of a notification that is on the page
CloseClick(i) ==
    /\ i \in 1..Len(notes)
    /\ notes[i].attached
    /\ notes[i].removePending < MaxCloseClicks
    /\ removeNotification(i)
    /\ lastOp' = "closeClick"
    /\ lastError' = FALSE
    /\ UNCHANGED <<baseVars, debounceVars>>

RemovalTimerNoGuard(i) ==
    /\ i \in 1..Len(notes)
    /\ notes[i].removePending > 0
    /\ notes' = [notes EXCEPT ![i].removePending = @ - 1, ![i].attached = FALSE,
                               ![i].removals = IF notes[i].attached THEN @ + 1 ELSE @]
    /\ lastOp' = "removalTimer"
    /\ lastError' = ~notes[i].attached
    /\ UNCHANGED <<baseVars, debounceVars>>

\* a removal timeout fires: if (notification.parentNode) removeChild
RemovalTimer(i) ==
    /\ i \in 1..Len(notes)
    /\ notes[i].removePending > 0
    /\ notes' = [notes EXCEPT ![i].removePending = @ - 1, ![i].attached = FALSE,
                               ![i].removals = IF notes[i].attached THEN @ + 1 ELSE @]
    /\ lastOp' = "removalTimer"
    /\ lastError' = FALSE
    /\ UNCHANGED <<baseVars, debounceVars>>

-----------------------------------------------------------------------------
(* Specifications *)

\* the complete markup, loaded by a classic script tag on a touch device
StandardPage ==
    /\ present = Elements
    /\ readyState = "loading"
    /\ touchDevice = TRUE
    /\ innerWidth = 480

\* nothing stored but, possibly, the theme
NothingStored ==
    /\ lsPersonalData = Absent
    /\ lsProfileImage = NoImage

Next ==
    \/ PageLoad
    \/ ToggleThemeScript
    \/ ToggleThemeMain
    \/ SystemPrefChange
    \/ TimePasses
    \/ Scroll
    \/ ScrollSampleScript
    \/ ScrollSampleMain
    \/ NavLinkClickScript
    \/ NavLinkClickMain
    \/ EditButtonClick
    \/ EditShortcutScript
    \/ SaveButtonClick
    \/ SaveShortcutScript
    \/ ToggleEditMode
    \/ SaveShortcutMain
    \/ FieldFinish
    \/ FieldEscape
    \/ FocusInput
    \/ TypeInput
    \/ EditButtonDispatchedClick
    \/ SelectFile
    \/ ReadComplete
    \/ ReadFails
    \/ HamburgerClickScript
    \/ HamburgerClickMain
    \/ OutsideClick
    \/ EscapeKey
    \/ Resize
    \/ ResizeSample
    \/ OrientationChange
    \/ OrientationTimer
    \/ SwipeUp
    \/ TouchEndLink
    \/ UserResponse
    \/ ReposResponse
    \/ ElementEnters
    \/ ElementLeaves
    \/ EnhancedInitTimer
    \/ Debounce
    \/ DebouncedCall
    \/ DebounceTick
    \/ DebounceLater
    \/ ShowNotification
    \/ \E i \in 1..MaxNotes : NotificationShown(i)
    \/ \E i \in 1..MaxNotes : AutoDismiss(i)
    \/ \E i \in 1..MaxNotes : CloseClick(i)
    \/ \E i \in 1..MaxNotes : RemovalTimer(i)
    \/ TypewriterStart
    \/ typewriterEffect
    \/ BeforeUnload
    \/ animateSkillBars
    \/ \E b \in Bars : BarTimer(b)

Spec == Init /\ [][Next]_vars

\* The theme controller alone: the rest of the page stays as loaded.
InitTheme ==
    /\ StandardPage
    /\ NothingStored
    /\ sections = << Sec("home", 0, 500), Sec("about", 500, 700) >>
    /\ markupText = [f \in Fields |-> <<"Dev">>]
    /\ markupActive = {}
    /\ Init

NextTheme ==
    \/ PageLoad
    \/ ToggleThemeScript
    \/ ToggleThemeMain
    \/ SystemPrefChange
    \/ TimePasses

SpecTheme == InitTheme /\ [][NextTheme]_vars

\* The scroll tracker and the navigation links alone.
\* no theme stored, a light system scheme, daytime
PlainTheme ==
    /\ lsTheme = null
    /\ prefersDark = FALSE
    /\ hour = 7

InitScroll ==
    /\ StandardPage
    /\ NothingStored
    /\ PlainTheme
    /\ markupText = [f \in Fields |-> <<"Dev">>]
    /\ Init

NextScroll ==
    \/ PageLoad
    \/ Scroll
    \/ ScrollSampleScript
    \/ ScrollSampleMain
    \/ NavLinkClickScript
    \/ NavLinkClickMain

SpecScroll == InitScroll /\ [][NextScroll]_vars

\* The inline editor alone.
InitEdit ==
    /\ StandardPage
    /\ NothingStored
    /\ PlainTheme
    /\ sections = << Sec("home", 0, 500), Sec("about", 500, 700) >>
    /\ markupActive = {}
    /\ Init

NextEdit ==
    \/ PageLoad
    \/ EditButtonClick
    \/ EditButtonDispatchedClick
    \/ EditShortcutScript
    \/ SaveButtonClick
    \/ SaveShortcutScript
    \/ ToggleEditMode
    \/ SaveShortcutMain
    \/ FieldFinish
    \/ FieldEscape
    \/ FocusInput
    \/ TypeInput

SpecEdit == InitEdit /\ [][NextEdit]_vars

\* one layout, one markup text, no link marked active
PlainMarkup ==
    /\ sections = << Sec("home", 0, 500), Sec("about", 500, 700) >>
    /\ markupActive = {}
    /\ markupText = [f \in Fields |-> <<"Dev">>]

\* The profile image upload alone.
InitImage ==
    /\ page = "script"
    /\ StandardPage
    /\ PlainTheme
    /\ PlainMarkup
    /\ lsPersonalData = Absent
    /\ Init

NextImage ==
    \/ PageLoad
    \/ SelectFile
    \/ ReadComplete
    \/ ReadFails

SpecImage == InitImage /\ [][NextImage]_vars

\* The viewport observers alone, for a script evaluated while the document
\* is loading or after.
InitReveal ==
    /\ present = Elements
    /\ touchDevice = TRUE
    /\ innerWidth = 480
    /\ PlainTheme
    /\ PlainMarkup
    /\ NothingStored
    /\ Init

NextReveal ==
    \/ PageLoad
    \/ ElementEnters
    \/ ElementLeaves
    \/ EnhancedInitTimer

SpecReveal == InitReveal /\ [][NextReveal]_vars

\* The observers with the typewriter they start.
NextTypewriter ==
    \/ PageLoad
    \/ ElementEnters
    \/ ElementLeaves
    \/ TypewriterStart
    \/ typewriterEffect
    \/ BeforeUnload

SpecTypewriter == InitReveal /\ [][NextTypewriter]_vars

\* The observers with the skill bars they fill.
NextSkills ==
    \/ PageLoad
    \/ ElementEnters
    \/ ElementLeaves
    \/ animateSkillBars
    \/ \E b \in Bars : BarTimer(b)

SpecSkills == InitReveal /\ [][NextSkills]_vars

\* The mobile menu alone, at every width.
InitMenu ==
    /\ present = Elements
    /\ readyState = "loading"
    /\ touchDevice = TRUE
    /\ PlainTheme
    /\ PlainMarkup
    /\ NothingStored
    /\ Init

NextMenu ==
    \/ PageLoad
    \/ HamburgerClickScript
    \/ HamburgerClickMain
    \/ NavLinkClickScript
    \/ NavLinkClickMain
    \/ OutsideClick
    \/ EscapeKey
    \/ Resize
    \/ ResizeSample
    \/ OrientationChange
    \/ OrientationTimer
    \/ SwipeUp
    \/ TouchEndLink

SpecMenu == InitMenu /\ [][NextMenu]_vars

\* The inline editor over every kind of stored 'personalData'.
InitStored ==
    /\ StandardPage
    /\ PlainTheme
    /\ PlainMarkup
    /\ lsProfileImage = NoImage
    /\ Init

SpecStored == InitStored /\ [][NextEdit]_vars

\* js/script.js on every page variant, device and script timing: the
\* initialization and the handlers that dereference cached elements.
InitStartup ==
    /\ page = "script"
    /\ innerWidth = 480
    /\ PlainTheme
    /\ PlainMarkup
    /\ NothingStored
    /\ Init

NextStartup ==
    \/ PageLoad
    \/ Scroll
    \/ ScrollSampleScript
    \/ HamburgerClickScript
    \/ OutsideClick
    \/ EditShortcutScript
    \/ SaveShortcutScript

SpecStartup == InitStartup /\ [][NextStartup]_vars

\* The statistics fetch alone, on every page variant, device and script
\* timing.
NextFetch ==
    \/ PageLoad
    \/ UserResponse
    \/ ReposResponse

SpecFetch == InitStartup /\ [][NextFetch]_vars

\* A debounced function alone, on either page.
InitDebounce ==
    /\ StandardPage
    /\ NothingStored
    /\ PlainTheme
    /\ sections = << Sec("home", 0, 500), Sec("about", 500, 700) >>
    /\ markupActive = {}
    /\ markupText = [f \in Fields |-> <<"Dev">>]
    /\ Init

NextDebounce ==
    \/ PageLoad
    \/ Debounce
    \/ DebouncedCall
    \/ DebounceTick
    \/ DebounceLater

SpecDebounce == InitDebounce /\ [][NextDebounce]_vars

\* The notification elements alone.  The browser runs a deferred step and
\* fires a pending timeout eventually.
NextNotify ==
    \/ PageLoad
    \/ ShowNotification
    \/ \E i \in 1..MaxNotes : NotificationShown(i)
    \/ \E i \in 1..MaxNotes : AutoDismiss(i)
    \/ \E i \in 1..MaxNotes : CloseClick(i)
    \/ \E i \in 1..MaxNotes : RemovalTimer(i)

SpecNotify ==
    /\ InitDebounce
    /\ [][NextNotify]_vars
    /\ \A i \in 1..MaxNotes :
           /\ WF_vars(NotificationShown(i))
           /\ WF_vars(AutoDismiss(i))
           /\ WF_vars(RemovalTimer(i))

-----------------------------------------------------------------------------
(* Claims *)

\* C1 (as stated): for every theme value the page starts with, two toggles in
\* a row leave the active theme and the data-theme attribute as they were
\* before the first of the two.
C1_ToggleTwiceRestores ==
    Len(themeLog) = 3 =>
        /\ themeLog[3] = themeLog[1]
        /\ ActiveTheme = themeLog[1]
        /\ ThemeAttr = themeLog[1]

\* C2: once the theme has been toggled, the value stored under 'theme' is the
\* value the most recent toggle produced, and so are the in-memory theme and
\* the data-theme attribute.
C2_PersistedIsLastToggled ==
    lastToggled # null =>
        /\ lsTheme = lastToggled
        /\ ActiveTheme = lastToggled
        /\ ThemeAttr = lastToggled

C2_Witness ==
    /\ Len(themeLog) = 3
    /\ lastToggled = "light"
    /\ lsTheme = "light"
    /\ lastOp = "systemPref"

\* C3 (as stated): right after a page load with any value persisted under
\* 'theme', the applied theme is that value, whatever the system preference
\* and the local hour.
C3_PersistedThemeApplied ==
    (lastOp = "load" /\ lsTheme # null) =>
        (ActiveTheme = lsTheme /\ ThemeAttr = lsTheme)

\* C3 (amended): right after a page load with a non-empty value persisted
\* under 'theme', the applied theme is that value, whatever the system
\* preference and the local hour.
C3_NonEmptyPersistedThemeApplied ==
    (lastOp = "load" /\ lsTheme # null /\ lsTheme # "") =>
        (ActiveTheme = lsTheme /\ ThemeAttr = lsTheme)

C3_Witness ==
    /\ lastOp = "load"
    /\ page = "main"
    /\ lsTheme = "light"
    /\ prefersDark
    /\ hour = 20
    /\ htmlTheme = "light"

\* C4 (as stated): in every reachable state the active theme is 'light' or
\* 'dark' and is reflected in exactly one document-level attribute.
C4_ThemeIsLightOrDark ==
    /\ ActiveTheme \in {"light", "dark"}
    /\ ThemeAttr = ActiveTheme
    /\ (bodyTheme = null) # (htmlTheme = null)

\* the interval [offsetTop, offsetTop + offsetHeight) of a section holds y + 100
Covers(sec, y) ==
    /\ sec.offsetTop <= y + 100
    /\ y + 100 < sec.offsetTop + sec.offsetHeight

Covering(secs, y) == {i \in 1..Len(secs) : Covers(secs[i], y)}

\* C5: when some section's interval holds scrollY + 100, the section a scroll
\* sample computes as current is a section whose interval holds scrollY + 100.
C5_CurrentSectionCoversProbe ==
    (lastOp = "scrollSample" /\ Covering(sections, scrollY) # {}) =>
        \E i \in Covering(sections, scrollY) : currentSection = sections[i].id

C5_Witness ==
    /\ lastOp = "scrollSample"
    /\ sections = << Sec("home", 0, 500), Sec("about", 500, 700) >>
    /\ scrollY = 600
    /\ currentSection = "about"
    /\ activeLinks = {"about"}

\* C6 (as stated): when no section's interval holds scrollY + 100, the section
\* a scroll sample computes as current is the first section of the page, and
\* its navigation link is the one highlighted.
C6_FallbackIsFirstSection ==
    (lastOp = "scrollSample" /\ Len(sections) > 0 /\ Covering(sections, scrollY) = {}) =>
        /\ currentSection = sections[1].id
        /\ activeLinks = {sections[1].id}

\* C7: after any sequence of scroll samples and navigation-link clicks, at
\* most one navigation link carries the active highlight.
C7_AtMostOneActiveLink == Cardinality(activeLinks) <= 1

C7_Witness ==
    /\ lastOp = "navClick"
    /\ currentSection = "about"
    /\ activeLinks = {"contact"}

\* the parsed 'personalData' mapping, empty when nothing is stored
StoredData == IF lsPersonalData.tag = "json" THEN JSONparse(lsPersonalData) ELSE <<>>

\* C8 (as stated): after a save on a script.js page in which a field's input
\* held a non-empty value v, 'personalData' maps the field name to v, and the
\* field shows v after the save and after the next page load.
C8_SavedValuePersistedAndShown ==
    (page = "script" /\ savedInputs # NoSave) =>
        \A f \in Fields :
            savedInputs[f] # <<>> =>
                /\ Has(StoredData, f)
                /\ Get(StoredData, f) = savedInputs[f]
                /\ lastOp \in {"save", "load"} => fieldText[f] = savedInputs[f]

\* C8 (amended): after a save on a script.js page in which a field's input
\* held a value v that is not empty or white space only, 'personalData' maps
\* the field name to v without its leading and trailing white space, and the
\* field shows that trimmed value after the save and after the next page load.
C8_TrimmedValuePersistedAndShown ==
    (page = "script" /\ savedInputs # NoSave) =>
        \A f \in Fields :
            Trim(savedInputs[f]) # <<>> =>
                /\ Has(StoredData, f)
                /\ Get(StoredData, f) = Trim(savedInputs[f])
                /\ lastOp \in {"save", "load"} => fieldText[f] = Trim(savedInputs[f])

C8_Witness ==
    /\ page = "script"
    /\ lastOp = "load"
    /\ savedInputs["occupation"] = <<" ", "Engineer">>
    /\ savedInputs["email"] = <<>>
    /\ lsPersonalData = JSONstringify(<< <<"occupation", <<"Engineer">>>> >>)
    /\ fieldText["occupation"] = <<"Engineer">>

\* C9 (as stated): after a save on a script.js page in which a field's input
\* was empty or white space only, the field shows its hardcoded default, which
\* is not the empty string, 'personalData' holds that default for the field,
\* and the same is shown after the next page load.
C9_EmptyInputGivesDefault ==
    (page = "script" /\ savedInputs # NoSave /\ lastOp \in {"save", "load"}) =>
        \A f \in Fields :
            Trim(savedInputs[f]) = <<>> =>
                /\ fieldText[f] = getDefaultValue(f)
                /\ fieldText[f] # <<>>
                /\ Get(StoredData, f) = getDefaultValue(f)

\* C10 (as stated): an invocation of save, on either page and by any entry
\* point, ends with every field back to viewing and the mapping persisted.
C10_SaveIsAtomicAndPersisted ==
    lastOp = "save" =>
        /\ \A f \in Fields : ~fieldInput[f].present
        /\ ~isEditing
        /\ lsPersonalData.tag = "json"

\* the file fails a validation as the claim states them: its MIME type does
\* not start with 'image/', or it is larger than 5MB
Invalid(file) ==
    \/ file.type \notin {"image/png", "image/jpeg"}
    \/ file.size > 5 * 1024 * 1024

\* C11: a step in which a file of a non-image MIME type, or of more than 5MB,
\* is selected shows an error notification, starts no read, and leaves the
\* displayed profile image and the stored 'profileImage' as they were.
C11_InvalidFileRejected ==
    [][(lastOp' = "selectFile" /\ lastFile' # NoFile /\ Invalid(lastFile')) =>
          /\ lastNotification'.type = "error"
          /\ reads' = reads
          /\ profileImgSrc' = profileImgSrc
          /\ lsProfileImage' = lsProfileImage]_vars

C11_Witness ==
    /\ lastOp = "selectFile"
    /\ lastFile = File("d", "image/jpeg", 6291456)
    /\ lastNotification =
           Notification("error", "Kich thuoc file khong duoc vuot qua 5MB")
    /\ reads = {}
    /\ profileImgSrc = DataURI(File("a", "image/png", 2048))
    /\ lsProfileImage = DataURI(File("a", "image/png", 2048))

\* C12: an image file of at most 5MB, exactly 5MB included, is accepted (its
\* read is started); when its read completes, the displayed profile image and
\* the stored 'profileImage' are both its data URI; and after a page load
\* the displayed image is the stored data URI.
C12_ValidImageStoredAndShown ==
    /\ (lastOp = "selectFile" /\ lastFile # NoFile /\ ~Invalid(lastFile)) =>
           lastFile \in reads
    /\ lastOp = "readComplete" =>
           (profileImgSrc = DataURI(lastFile) /\ lsProfileImage = DataURI(lastFile))
    /\ (lastOp = "load" /\ lsProfileImage # NoImage) => profileImgSrc = lsProfileImage

C12_Witness ==
    /\ lastOp = "load"
    /\ lastFile = File("a", "image/png", 5 * 1024 * 1024)
    /\ lsProfileImage = DataURI(lastFile)
    /\ profileImgSrc = DataURI(lastFile)

\* C13 (as stated): during one page load the enter-viewport animation of a
\* watched element, with its side effects, is triggered at most once, however
\* often the element enters the viewport.
C13_AnimatedAtMostOnce == \A el \in Watched : animCount[el] <= 1

\* C14: the menu is closed after a page load; a hamburger click on a closed
\* menu leaves it open with the 'active' class on the hamburger and on the
\* nav menu; after the handler of an outside click, of Escape, of an
\* orientation change, or of a resize to a width above 768px has run, the
\* menu is closed, whether it was open or closed before.
C14_MenuOpensOnlyByHamburger ==
    /\ lastOp = "load" => (~MenuOpen /\ ~hamburgerActive /\ ~navMenuActive)
    /\ (lastOp = "hamburger" /\ ~menuWasOpen) =>
           (MenuOpen /\ hamburgerActive /\ navMenuActive)
    /\ lastOp \in {"outsideClick", "escape", "orientationTimer"} => ~MenuOpen
    /\ (lastOp = "resizeSample" /\ innerWidth > 768) => ~MenuOpen

C14_Witness ==
    /\ page = "script"
    /\ lastOp = "resizeSample"
    /\ innerWidth = 769
    /\ menuWasOpen
    /\ ~isMenuOpen
    /\ ~navMenuActive

\* C15: in every reachable state the 'active' class of the hamburger and that
\* of the nav menu agree, and on a script.js page both agree with the
\* menu-open flag.
C15_FlagAndClassesAgree ==
    /\ hamburgerActive = navMenuActive
    /\ page = "script" => isMenuOpen = navMenuActive

C15_Witness ==
    /\ page = "script"
    /\ lastOp = "swipe"
    /\ menuWasOpen
    /\ ~isMenuOpen
    /\ ~hamburgerActive
    /\ ~navMenuActive

\* the stored 'personalData' is a string that is not the JSON text of an object
ForeignStored ==
    lsPersonalData.tag \in {"empty", "malformed", "null", "number", "string"}

\* C16 (as stated): after a load of a script.js page with any string stored
\* under 'personalData' that is not the JSON text of an object, nothing was
\* thrown, a warning was logged, and every field shows its markup text.
C16_ForeignDataLoggedAndIgnored ==
    (page = "script" /\ lastOp = "load" /\ ForeignStored) =>
        /\ ~lastError
        /\ lastWarn
        /\ fieldText = markupText

\* C16 (amended): after a load of a script.js page with any string stored
\* under 'personalData' that is not the JSON text of an object, nothing was
\* thrown and every field shows its markup text; a warning was logged exactly
\* when the string is malformed JSON or the JSON text null.
C16_ForeignDataIgnored ==
    (page = "script" /\ lastOp = "load" /\ ForeignStored) =>
        /\ ~lastError
        /\ fieldText = markupText
        /\ lastWarn = (lsPersonalData.tag \in {"malformed", "null"})

C16_Witness ==
    /\ page = "script"
    /\ lastOp = "load"
    /\ lsPersonalData.tag = "null"
    /\ lastWarn
    /\ ~lastError
    /\ fieldText = markupText

\* C17 (as stated): on a script.js page evaluated while the document loads,
\* whichever expected element is absent, initializeApp runs all its steps and
\* no call of initializeApp and no event handler ends by throwing.
C17_MissingElementsHarmless ==
    (page = "script" /\ readyState = "loading") => (AbortIndex = 0 /\ ~lastError)

\* C18 (as stated): a load of a script.js page sends exactly one user-profile
\* request, and, once the fetch has run to its end, exactly one
\* repository-list request has been sent, whatever the responses.
C18_FetchAttemptedOnce ==
    page = "script" =>
        /\ userRequests = 1
        /\ fetchCalls = NoCalls => repoRequests = 1

\* C19 (as stated): a step that invokes enableEditing on a script.js page
\* already in editing state replaces no field's input control and loses no
\* typed text.
C19_EnableEditingWhileEditingIsNoOp ==
    [][(page = "script" /\ isEditing /\ lastOp' = "enableEditing") =>
          fieldInput' = fieldInput]_vars

\* C20 (as stated): right after edit mode is entered, every field shows an
\* input control whose value is the text the field showed before.
C20_AllFieldsEditableAtOnce ==
    (lastOp = "enableEditing" /\ ~lastError) =>
        \A f \in Fields :
            /\ fieldInput[f].present
            /\ fieldInput[f].value = enteredText[f]

\* C21 (as stated): a click on a navigation link, on a page where every
\* link's target section exists, leaves exactly the clicked link (the one
\* whose section the click scrolls to) highlighted, and no step other than a
\* click, a scroll sample or a page load changes the highlighted links.
C21_ClickedLinkHighlighted ==
    [][/\ (lastOp' = "navClick" /\ NavLinks \subseteq SectionIds(sections)) =>
              \E l \in NavLinks :
                  /\ scrollY' = Max(0, TargetTop(sections, l) - FixedOffset)
                  /\ activeLinks' = {l}
       /\ lastOp' \notin {"navClick", "scrollSample", "load"} =>
              activeLinks' = activeLinks]_vars

\* C22: for a debounced function with wait w, whenever no timeout is pending
\* after a burst of calls (each call made before the timeout of the previous
\* one fired, then w ticks of quiet), func has run exactly once since the
\* burst began and with the argument of the last call; while the timeout of
\* the burst is pending func has not run.
C22_BurstCollapsesToLastSample ==
    /\ (dbTimer = -1 /\ dbEvents > 0) => (dbCalls = 1 /\ dbSeen = dbArgs)
    /\ dbTimer # -1 => dbCalls = 0

C22_Witness ==
    /\ lastOp = "later"
    /\ dbWait = 2
    /\ dbEvents = 3
    /\ dbArgs = 2
    /\ dbSeen = 2
    /\ dbCalls = 1
    /\ dbTimer = -1

\* C23 (as stated): when the scroll handlers have run for the offset the
\* window rests at, the navbar carries 'scrolled' exactly when scrollY is
\* greater than scrollThreshold, and so is the back-to-top button visible.
C23_NavbarFollowsScrollThreshold ==
    (lastOp = "scrollSample" /\ ~scrollPending /\ ~lastError) =>
        /\ navbarScrolled = (scrollY > scrollThreshold)
        /\ backToTopVisible = (scrollY > scrollThreshold)

\* the theme main.js derives from the system preference
Derived(dark) == IF dark THEN "dark" ELSE "light"

\* C24 (as stated): a system colour-scheme change on a main.js page sets the
\* data-theme attribute from the new preference when nothing is persisted
\* under 'theme' and leaves it alone when a value is persisted; after a
\* toggle since the load it leaves it alone.
C24_SystemChangeOnlyWithoutPersisted ==
    [][(page = "main" /\ lastOp' = "systemPref") =>
          /\ lsTheme = null => htmlTheme' = Derived(prefersDark')
          /\ lsTheme # null => htmlTheme' = htmlTheme
          /\ lastToggled # null => htmlTheme' = htmlTheme]_vars

\* C24 (amended): a system colour-scheme change on a main.js page sets the
\* data-theme attribute from the new preference when no value or the empty
\* string is persisted under 'theme' and leaves it alone when a non-empty
\* value is persisted; after a toggle since the load it leaves it alone.
C24_SystemChangeOnlyWithoutNonEmptyPersisted ==
    [][(page = "main" /\ lastOp' = "systemPref") =>
          /\ lsTheme \in {null, ""} => htmlTheme' = Derived(prefersDark')
          /\ lsTheme \notin {null, ""} => htmlTheme' = htmlTheme
          /\ lastToggled # null => htmlTheme' = htmlTheme]_vars

C24_Witness ==
    /\ page = "main"
    /\ lastOp = "systemPref"
    /\ lastToggled = "light"
    /\ lsTheme = "light"
    /\ prefersDark
    /\ htmlTheme = "light"

\* C25: every notification created is eventually off the page for good, with
\* no timeout of its own pending, unless the page is loaded anew before;
\* removeChild is called on a notification at most once, whichever of the
\* close button and the auto-dismiss timeout acts first, and no removal
\* timeout ends by throwing.
C25_NotificationRemovedOnce ==
    /\ [](\A i \in 1..Len(notes) : notes[i].removals <= 1)
    /\ [](lastOp = "removalTimer" => ~lastError)
    /\ \A i \in 1..MaxNotes :
           (i <= Len(notes)) ~>
               \/ i > Len(notes)
               \/ /\ ~notes[i].attached
                  /\ ~notes[i].autoPending
                  /\ notes[i].removePending = 0
                  /\ notes[i].removals = 1

C25_Witness ==
    /\ lastOp = "removalTimer"
    /\ Len(notes) = 1
    /\ ~notes[1].attached
    /\ ~notes[1].autoPending
    /\ notes[1].removePending = 1
    /\ notes[1].removals = 1

\* C26 (as stated): a run of typewriterEffect leaves its timeout pending as
\* long as no beforeunload was dispatched; and once beforeunload was
\* dispatched after the typewriter was triggered, no timeout that starts or
\* continues a typewriter is pending and typewriterEffect has not run since.
C26_TypewriterStopsAtTeardown ==
    /\ (lastOp \in {"typewriterStart", "typewriterEffect"} /\ torn = "no") =>
           typeTimers > 0
    /\ torn = "afterTrigger" => (typeStart = 0 /\ typeTimers = 0 /\ ~lateStep)

\* C27 (as stated): a skill bar that a fill timeout has filled has the width
\* the markup gives that bar, and the timeout had the delay index * stagger.
C27_BarsFilledToAuthoredWidth ==
    \A b \in Bars :
        barDelay[b] # -1 =>
            /\ skillBars[b].width = AuthoredWidth(b)
            /\ barDelay[b] = (b - 1) * Stagger

\* C28 (as stated): after the load of a script.js page with the complete
\* markup initializeApp has run exactly once and has not thrown, whether the
\* document was still loading or already parsed when the script was
\* evaluated: one observer of initializeIntersectionObserver exists, the
\* skill-bar widths have been captured once, and one user-profile request
\* has been sent.
C28_InitializeAppOncePerLoad ==
    (page = "script" /\ lastOp = "load" /\ present = Elements) =>
        /\ InitRuns = 1
        /\ ~lastError
        /\ Cardinality({o \in {"io1", "io2"} : observed[o] # {}}) = 1
        /\ skillBars = initializeSkillBars(MarkupBars)
        /\ userRequests = 1

\* C29 (as stated): in every state the editing flag agrees with the page:
\* when it is true every editable field shows an input control, when it is
\* false none does, and the button shown corresponds to the flag (script.js:
\* the save button in editing, the edit button in viewing; main.js: the
\* update button in its save form exactly in editing).
C29_EditingFlagAgreesWithPage ==
    /\ isEditing => \A f \in Fields : fieldInput[f].present
    /\ ~isEditing => \A f \in Fields : ~fieldInput[f].present
    /\ page = "script" => (saveBtnShown = isEditing /\ editBtnShown = ~isEditing)
    /\ page = "main" => updateBtnSave = isEditing

\* C30 (as stated): once every read of the selected valid files has
\* completed, in whatever order, the displayed profile image and the stored
\* 'profileImage' value are equal and are the data URI of the valid file that
\* was selected last.
C30_LastSelectedImageWins ==
    (lastOp = "readComplete" /\ reads = {} /\ lastAccepted # NoFile) =>
        /\ profileImgSrc = lsProfileImage
        /\ profileImgSrc = DataURI(lastAccepted)

====
